---------------------------- MODULE Spec2Model ----------------------------
(***************************************************************************)
(* A model of the recipe extraction and normalisation pipeline of          *)
(* buildyourmeal (src/ai_engine.py, src/app.py).                           *)
(*                                                                         *)
(* Python strings are modelled as sequences of one-character strings, so   *)
(* that lower(), strip(), title(), replace(), find() and the substring     *)
(* test are computed character by character as the interpreter does.       *)
(***************************************************************************)
EXTENDS Integers, Sequences, FiniteSets, TLC

VARIABLES
    pantry_map,     \* ai_engine.pantry_map: lower-cased name -> identifier
    pantry_names,   \* ai_engine.pantry_names: set of lower-cased names
    pc,             \* per request: position in the code
    ctx,            \* per request: the slim_context it passed
    idx,            \* per request: loop index inside set_pantry_memory
    earlier,        \* lower-cased names loaded by rebuilds before the current one
    query,          \* last name handed to a reader (resolver / get_pantry_id)
    answer,         \* what the reader returned
    lock,           \* holder of the external mutex (0: free)
    lockScope,      \* which span the external mutex covers
    raw,            \* per request: ingredient name in the model's response
    resolved,       \* per request: validate_ingredient_name's result
    food_id,        \* per request: get_pantry_id's result
    ex_pre,         \* extract_json_from_text: what precedes the body in text
    ex_body,        \* extract_json_from_text: the body of text
    ex_post,        \* extract_json_from_text: what follows the body in text
    ex_pc,          \* extract_json_from_text: "idle", "call" or "done"
    ex_result,      \* extract_json_from_text: what the call returned or raised
    as_tables,      \* the vocabulary tables loaded at import
    as_policy,      \* "lenient" (the code) or "strict"
    as_payload,     \* the decoded payload handed to RecipeSchema
    as_pc,          \* RecipeSchema(data): "idle", "call" or "done"
    as_result,      \* the record built, or the schema error
    as_diag,        \* the fields whose validator printed a diagnostic
    as_again,       \* the record built from the fields of as_result
    pr_route,       \* persistence: "text" (generate) or "video" (generate_from_video)
    pr_table,       \* persistence: the food_id values of the Ingredient table
    pr_recipe,      \* persistence: the validated recipe (recipe_data)
    pr_pc,          \* persistence: position in the route
    pr_i,           \* persistence: loop index
    pr_pending,     \* persistence: rows added to db.session, not committed
    pr_committed,   \* persistence: rows committed
    pr_outcome,     \* persistence: what the route answered
    en_entry,       \* entry point: "ai", "video" or "web"
    en_text,        \* entry point: response.text of the generative call
    en_payload,     \* entry point: the fields of the object in response.text
    en_parsed,      \* entry point: response.parsed of the SDK (web only)
    en_pc,          \* entry point: position in the function
    en_outcome,     \* entry point: how the call ended
    file_state,     \* video: file_info.state of the uploaded file
    polls           \* video: turns of the wait loop that slept

pantryVars == <<pantry_map, pantry_names, pc, ctx, idx, earlier, query, answer,
                lock, lockScope, raw, resolved, food_id>>
extractVars == <<ex_pre, ex_body, ex_post, ex_pc, ex_result>>

assembleVars == <<as_tables, as_policy, as_payload, as_pc, as_result, as_diag,
                  as_again>>

persistVars == <<pr_route, pr_table, pr_recipe, pr_pc, pr_i, pr_pending,
                 pr_committed, pr_outcome>>

entryVars == <<en_entry, en_text, en_payload, en_parsed, en_pc, en_outcome,
               file_state, polls>>

vars == <<pantryVars, extractVars, assembleVars, persistVars, entryVars>>

\* What the actions on the Pantry Index leave alone.
nonPantryVars == <<extractVars, assembleVars, persistVars, entryVars>>
\* What extract_json_from_text leaves alone.
nonExtractVars == <<pantryVars, assembleVars, persistVars, entryVars>>
\* What RecipeSchema(data) leaves alone.
nonAssembleVars == <<pantryVars, extractVars, persistVars, entryVars>>
\* What the persistence code of the routes leaves alone.
nonPersistVars == <<pantryVars, extractVars, assembleVars, entryVars>>
\* What the entry points leave alone when no snapshot is supplied.
nonEntryVars == <<pantryVars, extractVars, assembleVars, persistVars>>

---------------------------------------------------------------------------
(* Characters and the str methods the code uses.                           *)

Uppers == <<"A","B","C","D","E","F","G","H","I","J","K","L","M",
            "N","O","P","Q","R","S","T","U","V","W","X","Y","Z">>
Lowers == <<"a","b","c","d","e","f","g","h","i","j","k","l","m",
            "n","o","p","q","r","s","t","u","v","w","x","y","z">>

\* The characters of the model in code-point order (str comparison).
\* The lexer of TLA+ takes no backquote inside a string: the character U+0060
\* is written Tick.
Tick == "backtick"

CodeOrder == <<"\n", " ", "\"", "'", ",", "-", "0", "1", "2", "3", ":">>
             \o Uppers \o <<"[", "]", Tick>> \o Lowers \o <<"{", "}">>

Code(c) == CHOOSE i \in DOMAIN CodeOrder : CodeOrder[i] = c

IsUpper(c) == \E i \in DOMAIN Uppers : Uppers[i] = c
IsLower(c) == \E i \in DOMAIN Lowers : Lowers[i] = c
IsCased(c) == IsUpper(c) \/ IsLower(c)
IsSpace(c) == c \in {" ", "\n"}

LowerCh(c) == IF IsUpper(c) THEN Lowers[CHOOSE i \in DOMAIN Uppers : Uppers[i] = c] ELSE c
UpperCh(c) == IF IsLower(c) THEN Uppers[CHOOSE i \in DOMAIN Lowers : Lowers[i] = c] ELSE c

\* str.lower()
Lower(s) == [i \in 1..Len(s) |-> LowerCh(s[i])]

\* str.title(): the first cased character of every run of cased characters is
\* upper-cased, the others lower-cased; an uncased character ends the run.
Title(s) == [i \in 1..Len(s) |->
               IF i > 1 /\ IsCased(s[i-1]) THEN LowerCh(s[i]) ELSE UpperCh(s[i])]

RECURSIVE LStrip(_)
LStrip(s) == IF s # <<>> /\ IsSpace(Head(s)) THEN LStrip(Tail(s)) ELSE s

RECURSIVE RStrip(_)
RStrip(s) == IF s # <<>> /\ IsSpace(s[Len(s)]) THEN RStrip(SubSeq(s, 1, Len(s)-1)) ELSE s

\* str.strip()
Strip(s) == RStrip(LStrip(s))

\* s[i:i+len(p)] == p
MatchAt(s, p, i) == /\ i >= 1
                    /\ i + Len(p) - 1 <= Len(s)
                    /\ \A k \in 1..Len(p) : s[i + k - 1] = p[k]

\* p in s
Contains(s, p) == \E i \in 1..(Len(s) + 1) : MatchAt(s, p, i)

\* a < b for str
RECURSIVE StrLess(_, _)
StrLess(a, b) ==
    IF b = <<>> THEN FALSE
    ELSE IF a = <<>> THEN TRUE
    ELSE IF Head(a) = Head(b) THEN StrLess(Tail(a), Tail(b))
    ELSE Code(Head(a)) < Code(Head(b))

---------------------------------------------------------------------------
(* difflib.get_close_matches(word, possibilities, n=1, cutoff=0.6), as the *)
(* resolver calls it: SequenceMatcher(a = candidate, b = word) without     *)
(* junk (autojunk applies to sequences of 200 or more elements only).      *)

\* The blocks a[i..i+k-1] = b[j..j+k-1] inside a[alo..ahi], b[blo..bhi].
Blocks(a, b, alo, ahi, blo, bhi) ==
    {t \in (alo..ahi) \X (blo..bhi) \X (1..(ahi - alo + 1)) :
        /\ t[1] + t[3] - 1 <= ahi
        /\ t[2] + t[3] - 1 <= bhi
        /\ \A d \in 0..(t[3] - 1) : a[t[1] + d] = b[t[2] + d]}

\* SequenceMatcher.find_longest_match: the longest block; of those the one
\* starting earliest in a; of those the one starting earliest in b.
FindLongestMatch(a, b, alo, ahi, blo, bhi) ==
    LET bs == Blocks(a, b, alo, ahi, blo, bhi)
    IN  CHOOSE t \in bs : \A u \in bs :
            \/ t[3] > u[3]
            \/ t[3] = u[3] /\ t[1] < u[1]
            \/ t[3] = u[3] /\ t[1] = u[1] /\ t[2] <= u[2]

\* The sum of the sizes of SequenceMatcher.get_matching_blocks: the longest
\* block, then recursively the pieces to its left and to its right.
RECURSIVE MatchCount(_, _, _, _, _, _)
MatchCount(a, b, alo, ahi, blo, bhi) ==
    IF alo > ahi \/ blo > bhi \/ Blocks(a, b, alo, ahi, blo, bhi) = {} THEN 0
    ELSE LET m == FindLongestMatch(a, b, alo, ahi, blo, bhi)
         IN  m[3] + MatchCount(a, b, alo, m[1] - 1, blo, m[2] - 1)
                  + MatchCount(a, b, m[1] + m[3], ahi, m[2] + m[3], bhi)

\* SequenceMatcher.ratio() = 2.0 * matches / (len(a) + len(b)), 1.0 when both
\* are empty, kept as the fraction <<numerator, denominator>>.
Ratio(a, b) ==
    IF Len(a) + Len(b) = 0 THEN <<1, 1>>
    ELSE <<2 * MatchCount(a, b, 1, Len(a), 1, Len(b)), Len(a) + Len(b)>>

\* cutoff=0.6 as the fraction CutoffNum / CutoffDen.
CutoffNum == 6
CutoffDen == 10

RatioAtLeastCutoff(q) == q[1] * CutoffDen >= CutoffNum * q[2]

\* (score1, x1) > (score2, x2) on Python tuples of (float, str).
ScoredGreater(q1, x1, q2, x2) ==
    \/ q1[1] * q2[2] > q2[1] * q1[2]
    \/ q1[1] * q2[2] = q2[1] * q1[2] /\ StrLess(x2, x1)

\* The list get_close_matches returns for n=1: empty, or the one candidate of
\* the best (score, candidate) among those reaching the cutoff.
GetCloseMatches(word, possibilities) ==
    LET good == {x \in possibilities : RatioAtLeastCutoff(Ratio(x, word))}
    IN  IF good = {} THEN <<>>
        ELSE <<CHOOSE x \in good : \A y \in good \ {x} :
                   ScoredGreater(Ratio(x, word), x, Ratio(y, word), y)>>

---------------------------------------------------------------------------
(* The Pantry Index and its readers.                                       *)

None == "None"

\* dict.get(key): the value, or None.
DictGet(m, k) == IF k \in DOMAIN m THEN m[k] ELSE None

\* setdefault in place of the assignment: a key keeps its first value.
DictPutIfAbsent(m, k, v) ==
    [x \in (DOMAIN m) \cup {k} |-> IF x \in DOMAIN m THEN m[x] ELSE v]

\* m[k] = v
DictPut(m, k, v) == [x \in (DOMAIN m) \cup {k} |-> IF x = k THEN v ELSE m[x]]

EmptyDict == [x \in {} |-> None]

\* get_pantry_id(name), reading the map m.
GetPantryIdIn(m, name) == DictGet(m, Lower(name))

get_pantry_id(name) == GetPantryIdIn(pantry_map, name)

\* validate_ingredient_name trying the substring tier before the fuzzy one.
ValidateIngredientNameSubstringFirst(names, v) ==
    LET v_norm == Strip(Lower(v))
        matches == GetCloseMatches(v_norm, names)
        hits == {p \in names : Contains(p, v_norm) \/ Contains(v_norm, p)}
    IN  IF v_norm \in names THEN {[name |-> v_norm, tier |-> "exact"]}
        ELSE IF hits # {} THEN {[name |-> p, tier |-> "substring"] : p \in hits}
        ELSE IF matches # <<>> THEN {[name |-> matches[1], tier |-> "fuzzy"]}
        ELSE {[name |-> v_norm, tier |-> "import"]}

\* validate_ingredient_name returning an empty name as it is.
ValidateIngredientNameEmptyImport(names, v) ==
    LET v_norm == Strip(Lower(v))
        matches == GetCloseMatches(v_norm, names)
        hits == {p \in names : Contains(p, v_norm) \/ Contains(v_norm, p)}
    IN  IF v_norm \in names THEN {[name |-> v_norm, tier |-> "exact"]}
        ELSE IF v_norm = <<>> THEN {[name |-> v_norm, tier |-> "import"]}
        ELSE IF matches # <<>> THEN {[name |-> matches[1], tier |-> "fuzzy"]}
        ELSE IF hits # {} THEN {[name |-> p, tier |-> "substring"] : p \in hits}
        ELSE {[name |-> v_norm, tier |-> "import"]}

\* validate_ingredient_name without its substring tier.
ValidateIngredientNameNoSubstring(names, v) ==
    LET v_norm == Strip(Lower(v))
        matches == GetCloseMatches(v_norm, names)
    IN  IF v_norm \in names THEN {[name |-> v_norm, tier |-> "exact"]}
        ELSE IF matches # <<>> THEN {[name |-> matches[1], tier |-> "fuzzy"]}
        ELSE {[name |-> v_norm, tier |-> "import"]}

\* validate_ingredient_name returning the raw name, as received, when nothing
\* matches.
ValidateIngredientNameRawImport(names, v) ==
    LET v_norm == Strip(Lower(v))
        matches == GetCloseMatches(v_norm, names)
        hits == {p \in names : Contains(p, v_norm) \/ Contains(v_norm, p)}
    IN  IF v_norm \in names THEN {[name |-> v_norm, tier |-> "exact"]}
        ELSE IF matches # <<>> THEN {[name |-> matches[1], tier |-> "fuzzy"]}
        ELSE IF hits # {} THEN {[name |-> p, tier |-> "substring"] : p \in hits}
        ELSE {[name |-> v, tier |-> "import"]}

\* IngredientSchema.validate_ingredient_name(v) against the name set `names`:
\* the set of values the call can return, each with the tier that produced
\* it. The substring tier returns the first hit in the set's iteration order,
\* which the interpreter does not fix: any hit can be the first.
ValidateIngredientNameIn(names, v) ==
    LET v_norm == Strip(Lower(v))
        matches == GetCloseMatches(v_norm, names)
        hits == {p \in names : Contains(p, v_norm) \/ Contains(v_norm, p)}
    IN  IF v_norm \in names THEN {[name |-> v_norm, tier |-> "exact"]}
        ELSE IF matches # <<>> THEN {[name |-> matches[1], tier |-> "fuzzy"]}
        ELSE IF hits # {} THEN {[name |-> p, tier |-> "substring"] : p \in hits}
        ELSE {[name |-> v_norm, tier |-> "import"]}

validate_ingredient_name(v) == ValidateIngredientNameIn(pantry_names, v)

\* What a completed set_pantry_memory(S) leaves, computed from S alone.
NamesOf(S) == {Lower(S[k].n) : k \in 1..Len(S)}

RECURSIVE MapOf(_)
MapOf(S) == IF S = <<>> THEN EmptyDict
            ELSE DictPut(MapOf(SubSeq(S, 1, Len(S) - 1)), Lower(S[Len(S)].n), S[Len(S)].i)

---------------------------------------------------------------------------
(* Inputs: pantry snapshots and the names handed to the readers.           *)

MaxItems == 2

Pork      == <<"P","o","r","k">>
pork      == <<"p","o","r","k">>
Ham       == <<"H","a","m">>
hamSpace  == <<"h","a","m"," ">>

\* A snapshot item as set_pantry_memory reads it: i = id, n = name.
ItemPool == {[i |-> "000322", n |-> Pork], [i |-> "17", n |-> pork],
             [i |-> "6", n |-> hamSpace]}

Snapshots == UNION {[1..k -> ItemPool] : k \in 0..MaxItems}

\* Names a caller passes to validate_ingredient_name and get_pantry_id.
QueryNames == {Pork, pork, Ham, hamSpace, <<"h","a","m">>, <<"p","o","r","c">>,
               <<"o","r">>, <<"e","g","g">>, <<>>}

Procs == {1, 2}

---------------------------------------------------------------------------
(* set_pantry_memory(slim_context), one action per statement. `after` is   *)
(* where the caller continues when the function returns.                   *)

\* The call: slim_context is bound, nothing is executed yet.
CallSetPantryMemory(r, S) ==
    /\ pc[r] = "idle"
    /\ pc' = [pc EXCEPT ![r] = "clear_map"]
    /\ ctx' = [ctx EXCEPT ![r] = S]
    /\ idx' = [idx EXCEPT ![r] = 0]
    /\ earlier' = earlier \cup NamesOf(ctx[r])
    /\ query' = None /\ answer' = None
    /\ raw' = [raw EXCEPT ![r] = None]
    /\ resolved' = [resolved EXCEPT ![r] = None]
    /\ food_id' = [food_id EXCEPT ![r] = None]
    /\ UNCHANGED <<pantry_map, pantry_names, lock, lockScope>>
    /\ UNCHANGED nonPantryVars

\* A rebuild that merges: the map is not cleared.
ClearedMapKept(m) == m

\* pantry_map.clear()
ClearedMap(m) == EmptyDict

ClearMap(r) ==
    /\ pc[r] = "clear_map"
    /\ pantry_map' = ClearedMap(pantry_map)
    /\ pc' = [pc EXCEPT ![r] = "clear_names"]
    /\ UNCHANGED <<pantry_names, ctx, idx, earlier, query, answer, lock,
                   lockScope, raw, resolved, food_id>>
    /\ UNCHANGED nonPantryVars

\* A rebuild that merges: the name set is not cleared.
ClearedNamesKept(n) == n

\* pantry_names.clear()
ClearedNames(n) == {}

\* for item in slim_context: the next item, or the return.
LoopNext(r, after) ==
    IF idx[r] < Len(ctx[r])
    THEN /\ idx' = [idx EXCEPT ![r] = idx[r] + 1]
         /\ pc' = [pc EXCEPT ![r] = "store_id"]
    ELSE /\ idx' = idx
         /\ pc' = [pc EXCEPT ![r] = after]

ClearNames(r, after) ==
    /\ pc[r] = "clear_names"
    /\ pantry_names' = ClearedNames(pantry_names)
    /\ LoopNext(r, after)
    /\ UNCHANGED <<pantry_map, ctx, earlier, query, answer, lock, lockScope,
                   raw, resolved, food_id>>
    /\ UNCHANGED nonPantryVars

\* The identifier stored under the name as given, not lower-cased.
MapKeyRaw(name) == name

\* The key under which an item's identifier is stored: name.lower()
MapKey(name) == Lower(name)

\* pantry_map[name.lower()] = fid
StoreId(r) ==
    /\ pc[r] = "store_id"
    /\ pantry_map' = DictPut(pantry_map, MapKey(ctx[r][idx[r]].n), ctx[r][idx[r]].i)
    /\ pc' = [pc EXCEPT ![r] = "add_name"]
    /\ UNCHANGED <<pantry_names, ctx, idx, earlier, query, answer, lock,
                   lockScope, raw, resolved, food_id>>
    /\ UNCHANGED nonPantryVars

\* pantry_names.add(name.lower())
AddName(r, after) ==
    /\ pc[r] = "add_name"
    /\ pantry_names' = pantry_names \cup {Lower(ctx[r][idx[r]].n)}
    /\ LoopNext(r, after)
    /\ UNCHANGED <<pantry_map, ctx, earlier, query, answer, lock, lockScope,
                   raw, resolved, food_id>>
    /\ UNCHANGED nonPantryVars

---------------------------------------------------------------------------
(* The readers, called between rebuilds.                                   *)

\* IngredientSchema.validate_ingredient_name(v)
Validate(r, v) ==
    /\ pc[r] = "idle"
    /\ raw' = [raw EXCEPT ![r] = v]
    /\ \E o \in validate_ingredient_name(v) : resolved' = [resolved EXCEPT ![r] = o]
    /\ query' = None /\ answer' = None
    /\ UNCHANGED <<pantry_map, pantry_names, pc, ctx, idx, earlier, lock,
                   lockScope, food_id>>
    /\ UNCHANGED nonPantryVars

\* get_pantry_id(name)
GetPantryId(r, name) ==
    /\ pc[r] = "idle"
    /\ query' = name
    /\ answer' = get_pantry_id(name)
    /\ raw' = [raw EXCEPT ![r] = None]
    /\ resolved' = [resolved EXCEPT ![r] = None]
    /\ UNCHANGED <<pantry_map, pantry_names, pc, ctx, idx, earlier, lock,
                   lockScope, food_id>>
    /\ UNCHANGED nonPantryVars

---------------------------------------------------------------------------
(* Spec: one thread calling set_pantry_memory and the readers in any order. *)

\* No call of extract_json_from_text is in progress.
ExtractIdle ==
    /\ ex_pre = <<>> /\ ex_body = <<>> /\ ex_post = <<>>
    /\ ex_pc = "idle"
    /\ ex_result = None

AssembleIdle ==
    /\ as_tables = None /\ as_policy = None /\ as_payload = None
    /\ as_pc = "idle" /\ as_result = None /\ as_diag = {} /\ as_again = None

EntryIdle ==
    /\ en_entry = None /\ en_text = <<>> /\ en_payload = None /\ en_parsed = None
    /\ en_pc = "idle" /\ en_outcome = None
    /\ file_state = None /\ polls = 0

PersistIdle ==
    /\ pr_route = None /\ pr_table = {} /\ pr_recipe = None
    /\ pr_pc = "idle" /\ pr_i = 0
    /\ pr_pending = {} /\ pr_committed = {} /\ pr_outcome = None

\* The Pantry Index after set_pantry_memory(S) has returned, no request
\* running; S = <<>> is the module as imported.
PantryHolding(S) ==
    /\ pantry_map = MapOf(S)
    /\ pantry_names = NamesOf(S)
    /\ pc = [r \in Procs |-> "idle"]
    /\ ctx = [r \in Procs |-> <<>>]
    /\ idx = [r \in Procs |-> 0]
    /\ earlier = {}
    /\ query = None /\ answer = None
    /\ lock = 0
    /\ raw = [r \in Procs |-> None]
    /\ resolved = [r \in Procs |-> None]
    /\ food_id = [r \in Procs |-> None]

PantryStart == PantryHolding(<<>>)

Init ==
    /\ PantryStart
    /\ lockScope = "none"
    /\ ExtractIdle
    /\ AssembleIdle
    /\ PersistIdle
    /\ EntryIdle

Next ==
    \/ \E S \in Snapshots : CallSetPantryMemory(1, S)
    \/ ClearMap(1)
    \/ ClearNames(1, "idle")
    \/ StoreId(1)
    \/ AddName(1, "idle")
    \/ \E v \in QueryNames : Validate(1, v)
    \/ \E v \in QueryNames : GetPantryId(1, v)

Spec == Init /\ [][Next]_vars

---------------------------------------------------------------------------
(* C1, C2: the rebuild.                                                    *)

\* Names of earlier snapshots that the current snapshot does not hold.
OnlyEarlier == earlier \ NamesOf(ctx[1])

\* C1: once set_pantry_memory(S2) has returned, after any earlier rebuilds,
\* the name set and the keys of the map are exactly the lower-cased names of
\* S2; a name that only an earlier snapshot held is in neither, no exact
\* match returns it, and get_pantry_id returns no identifier for it.
Thm_C1_RebuildDiscardsEarlier ==
    pc[1] = "idle" =>
        /\ pantry_names = NamesOf(ctx[1])
        /\ DOMAIN pantry_map = NamesOf(ctx[1])
        /\ \A x \in OnlyEarlier : x \notin pantry_names /\ x \notin DOMAIN pantry_map
        /\ \A v \in QueryNames : \A o \in validate_ingredient_name(v) :
               o.tier = "exact" => o.name \notin OnlyEarlier
        /\ \A v \in QueryNames : Lower(v) \in OnlyEarlier => get_pantry_id(v) = None

\* A second rebuild has returned, an earlier snapshot held a name the current
\* one does not, and a lookup of that name has just returned nothing.
Wit_C1_EarlierNameGone ==
    /\ pc[1] = "idle"
    /\ ctx[1] # <<>>
    /\ query # None
    /\ Lower(query) \in OnlyEarlier
    /\ answer = None

\* C2 as stated: in every state, the intermediate states of a rebuild
\* included, every name of pantry_names is a key of pantry_map.
Cex_C2_EveryNameHasId == pantry_names \subseteq DOMAIN pantry_map

\* C2 amended: every name of pantry_names is a key of pantry_map, and
\* get_pantry_id returns an identifier for it, in every state but the one
\* between pantry_map.clear() and pantry_names.clear().
Thm_C2_EveryNameHasIdButBetweenClears ==
    pc[1] # "clear_names" =>
        /\ pantry_names \subseteq DOMAIN pantry_map
        /\ \A x \in pantry_names : get_pantry_id(x) # None

\* Inside the loop of a rebuild, with one name already added and the next
\* identifier stored.
Wit_C2_InsideRebuild ==
    /\ pc[1] = "add_name"
    /\ idx[1] = 2
    /\ pantry_names # {}

---------------------------------------------------------------------------
(* SpecConc: two generation requests (app.generate -> generate_recipe_ai)  *)
(* on two threads against the one process-wide Pantry Index. The code      *)
(* takes no lock; lockScope says which span an external mutex covers:      *)
(*   "none"     no mutex (the code as it is),                              *)
(*   "rebuild"  the mutex is held around set_pantry_memory only, and a      *)
(*              reader of the index waits while a rebuild holds it,        *)
(*   "request"  the mutex is held from the rebuild to the identifier       *)
(*              lookup of the same request.                                *)

ConcItemPool == {[i |-> "000322", n |-> Pork], [i |-> "6", n |-> hamSpace]}

\* generate_recipe_ai rebuilds only for a non-empty slim_context.
ConcSnapshots == UNION {[1..k -> ConcItemPool] : k \in 1..MaxItems}

\* Ingredient names in the generative model's response.
ConcRawNames == {pork, hamSpace, <<"p","o","r","c">>}

LockScopes == {"none", "rebuild", "request"}

\* generate(): pantry_context = get_slim_pantry_context(), then
\* generate_recipe_ai(query, pantry_context) up to `if slim_context:`.
RequestStart(r, S) ==
    /\ pc[r] = "idle"
    /\ ctx' = [ctx EXCEPT ![r] = S]
    /\ pc' = [pc EXCEPT ![r] = "enter"]
    /\ UNCHANGED <<pantry_map, pantry_names, idx, earlier, query, answer,
                   lock, lockScope, raw, resolved, food_id>>
    /\ UNCHANGED nonPantryVars

\* The call set_pantry_memory(slim_context), entered under the mutex when
\* there is one.
EnterRebuild(r) ==
    /\ pc[r] = "enter"
    /\ IF lockScope = "none" THEN lock' = lock
       ELSE lock = 0 /\ lock' = r
    /\ pc' = [pc EXCEPT ![r] = "clear_map"]
    /\ idx' = [idx EXCEPT ![r] = 0]
    /\ UNCHANGED <<pantry_map, pantry_names, ctx, earlier, query, answer,
                   lockScope, raw, resolved, food_id>>
    /\ UNCHANGED nonPantryVars

\* set_pantry_memory has returned; generate_recipe_ai builds the prompt and
\* calls the generative model. A mutex around the rebuild alone ends here.
LeaveRebuild(r) ==
    /\ pc[r] = "rebuilt"
    /\ lock' = IF lockScope = "rebuild" THEN 0 ELSE lock
    /\ pc' = [pc EXCEPT ![r] = "ai_call"]
    /\ UNCHANGED <<pantry_map, pantry_names, ctx, idx, earlier, query, answer,
                   lockScope, raw, resolved, food_id>>
    /\ UNCHANGED nonPantryVars

\* client.models.generate_content returns; the response names ingredient v.
AIResponse(r, v) ==
    /\ pc[r] = "ai_call"
    /\ raw' = [raw EXCEPT ![r] = v]
    /\ pc' = [pc EXCEPT ![r] = "validate"]
    /\ UNCHANGED <<pantry_map, pantry_names, ctx, idx, earlier, query, answer,
                   lock, lockScope, resolved, food_id>>
    /\ UNCHANGED nonPantryVars

\* Under the rebuild mutex no thread reads the index while a rebuild runs.
ReadAllowed == lockScope = "rebuild" => lock = 0

\* RecipeSchema(data): validate_ingredient_name runs on the response's name.
RequestValidate(r) ==
    /\ pc[r] = "validate"
    /\ ReadAllowed
    /\ \E o \in validate_ingredient_name(raw[r]) :
           resolved' = [resolved EXCEPT ![r] = o]
    /\ pc' = [pc EXCEPT ![r] = "lookup"]
    /\ UNCHANGED <<pantry_map, pantry_names, ctx, idx, earlier, query, answer,
                   lock, lockScope, raw, food_id>>
    /\ UNCHANGED nonPantryVars

\* generate(): food_id_str = get_pantry_id(ing.name). A mutex around the whole
\* request ends here.
RequestLookup(r) ==
    /\ pc[r] = "lookup"
    /\ ReadAllowed
    /\ food_id' = [food_id EXCEPT ![r] = get_pantry_id(resolved[r].name)]
    /\ lock' = IF lockScope = "request" THEN 0 ELSE lock
    /\ pc' = [pc EXCEPT ![r] = "done"]
    /\ UNCHANGED <<pantry_map, pantry_names, ctx, idx, earlier, query, answer,
                   lockScope, raw, resolved>>
    /\ UNCHANGED nonPantryVars

InitConc ==
    /\ PantryStart
    /\ lockScope \in LockScopes
    /\ ExtractIdle
    /\ AssembleIdle
    /\ PersistIdle
    /\ EntryIdle

NextConc ==
    \E r \in Procs :
        \/ \E S \in ConcSnapshots : RequestStart(r, S)
        \/ EnterRebuild(r)
        \/ ClearMap(r)
        \/ ClearNames(r, "rebuilt")
        \/ StoreId(r)
        \/ AddName(r, "rebuilt")
        \/ LeaveRebuild(r)
        \/ \E v \in ConcRawNames : AIResponse(r, v)
        \/ RequestValidate(r)
        \/ RequestLookup(r)

SpecConc == InitConc /\ [][NextConc]_vars

\* Request r's name was resolved as its own snapshot resolves it.
ResolvedAgainstOwn(r) ==
    pc[r] \in {"lookup", "done"} =>
        resolved[r] \in ValidateIngredientNameIn(NamesOf(ctx[r]), raw[r])

\* Request r's identifier is the one its own snapshot gives the resolved name.
LookedUpInOwn(r) ==
    pc[r] = "done" =>
        food_id[r] = GetPantryIdIn(MapOf(ctx[r]), resolved[r].name)

\* C3 as stated: with set_pantry_memory mutually exclusive, each of two
\* concurrent requests has its names resolved, and their identifiers looked
\* up, against the snapshot it supplied itself.
Cex_C3_RebuildMutexSuffices ==
    lockScope = "rebuild" =>
        \A r \in Procs : ResolvedAgainstOwn(r) /\ LookedUpInOwn(r)

\* C3 amended: with the mutex held from the rebuild to the identifier lookup
\* of the same request, each request's names are resolved, and their
\* identifiers looked up, against the snapshot it supplied itself.
Thm_C3_RequestMutexSuffices ==
    lockScope = "request" =>
        \A r \in Procs : ResolvedAgainstOwn(r) /\ LookedUpInOwn(r)

\* Both requests have run to the end under the request-wide mutex, with
\* snapshots of different names, and each found an identifier.
Wit_C3_TwoRequestsServed ==
    /\ lockScope = "request"
    /\ \A r \in Procs : pc[r] = "done" /\ food_id[r] # None
    /\ NamesOf(ctx[1]) \cap NamesOf(ctx[2]) = {}

---------------------------------------------------------------------------
(* json.loads on a str, as CPython's json.decoder reads it. A decoded      *)
(* value is a record of one shape, VNum .. VObj below; an object keeps its *)
(* members as a set of <<key, value>> with one pair per key (the last one  *)
(* read wins, and equality ignores the order), like a dict. A number is    *)
(* kept as its lexeme: the integer lexemes of the model's texts denote     *)
(* different numbers when they differ.                                     *)

Quote == "\""
Digits == {"0", "1", "2", "3"}

VNone      == [t |-> "none", s |-> <<>>, items |-> <<>>, o |-> {}]
VNum(lex)  == [t |-> "num",  s |-> lex,  items |-> <<>>, o |-> {}]
VLit(lex)  == [t |-> "lit",  s |-> lex,  items |-> <<>>, o |-> {}]
VStr(cs)   == [t |-> "str",  s |-> cs,   items |-> <<>>, o |-> {}]
VArr(vs)   == [t |-> "arr",  s |-> <<>>, items |-> vs,   o |-> {}]
VObj(ps)   == [t |-> "obj",  s |-> <<>>, items |-> <<>>, o |-> ps]

\* dict[k] = v
ObjPut(ps, k, v) == {q \in ps : q[1] # k} \cup {<<k, v>>}

\* JSONDecodeError (no value), and a value decoded up to index next - 1.
Bad == [ok |-> FALSE, val |-> VNone, next |-> 0]
Good(v, n) == [ok |-> TRUE, val |-> v, next |-> n]

\* s[i], or "EOF" past the end.
At(s, i) == IF i \in 1..Len(s) THEN s[i] ELSE "EOF"

\* WHITESPACE.match(s, i).end()
RECURSIVE SkipWs(_, _)
SkipWs(s, i) == IF IsSpace(At(s, i)) THEN SkipWs(s, i + 1) ELSE i

\* The end of the run of digits that starts at i.
RECURSIVE DigitsEnd(_, _)
DigitsEnd(s, i) == IF At(s, i) \in Digits THEN DigitsEnd(s, i + 1) ELSE i

\* scanstring(s, i + 1): s[i] is the opening quote. The string ends at the
\* first quote; a control character before it is an error (strict).
ScanString(s, i) ==
    LET ends == {j \in (i + 1)..Len(s) : s[j] \in {Quote, "\n"}}
    IN  IF ends = {} THEN Bad
        ELSE LET j == CHOOSE j \in ends : \A k \in ends : j <= k
             IN  IF s[j] = Quote THEN Good(VStr(SubSeq(s, i + 1, j - 1)), j + 1) ELSE Bad

\* NUMBER_RE = (-?(?:0|[1-9]\d*))(\.\d+)?([eE][-+]?\d+)? on the characters of
\* the model (no sign, no point).
ScanNumber(s, i) ==
    LET intEnd == IF s[i] = "0" THEN i + 1 ELSE DigitsEnd(s, i)
        expEnd == IF At(s, intEnd) \in {"e", "E"} /\ At(s, intEnd + 1) \in Digits
                  THEN DigitsEnd(s, intEnd + 1) ELSE intEnd
    IN  Good(VNum(SubSeq(s, i, expEnd - 1)), expEnd)

\* The constants the scanner knows.
Literals == {<<"n","u","l","l">>, <<"t","r","u","e">>, <<"f","a","l","s","e">>,
             <<"N","a","N">>, <<"I","n","f","i","n","i","t","y">>}

RECURSIVE ScanOnce(_, _)
RECURSIVE ParseMembers(_, _, _)
RECURSIVE ParseElements(_, _, _)

\* JSONObject: s[i] is the opening brace.
ParseObject(s, i) ==
    LET j == SkipWs(s, i + 1)
    IN  IF At(s, j) = "}" THEN Good(VObj({}), j + 1)
        ELSE IF At(s, j) = Quote THEN ParseMembers(s, j, {})
        ELSE Bad

\* One "key": value at the quote s[j], then '}' or ',' and the next member.
ParseMembers(s, j, acc) ==
    LET key == ScanString(s, j)
        colon == SkipWs(s, key.next)
        v == ScanOnce(s, SkipWs(s, colon + 1))
        d == SkipWs(s, v.next)
        e == SkipWs(s, d + 1)
    IN  IF ~key.ok \/ At(s, colon) # ":" THEN Bad
        ELSE IF ~v.ok THEN Bad
        ELSE IF At(s, d) = "}" THEN Good(VObj(ObjPut(acc, key.val.s, v.val)), d + 1)
        ELSE IF At(s, d) = "," /\ At(s, e) = Quote
             THEN ParseMembers(s, e, ObjPut(acc, key.val.s, v.val))
        ELSE Bad

\* JSONArray: s[i] is the opening bracket.
ParseArray(s, i) ==
    LET j == SkipWs(s, i + 1)
    IN  IF At(s, j) = "]" THEN Good(VArr(<<>>), j + 1)
        ELSE ParseElements(s, j, <<>>)

\* One element at j, then ']' or ',' and the next element.
ParseElements(s, j, acc) ==
    LET v == ScanOnce(s, j)
        d == SkipWs(s, v.next)
    IN  IF ~v.ok THEN Bad
        ELSE IF At(s, d) = "]" THEN Good(VArr(Append(acc, v.val)), d + 1)
        ELSE IF At(s, d) = "," THEN ParseElements(s, SkipWs(s, d + 1), Append(acc, v.val))
        ELSE Bad

\* scanner.py_make_scanner._scan_once
ScanOnce(s, i) ==
    LET c == At(s, i)
        lits == {l \in Literals : MatchAt(s, l, i)}
    IN  IF c = Quote THEN ScanString(s, i)
        ELSE IF c = "{" THEN ParseObject(s, i)
        ELSE IF c = "[" THEN ParseArray(s, i)
        ELSE IF c \in Digits THEN ScanNumber(s, i)
        ELSE IF lits # {} THEN LET l == CHOOSE l \in lits : TRUE
                               IN  Good(VLit(l), i + Len(l))
        ELSE Bad

\* json.loads(s): one value, white space around it, nothing else.
JsonLoads(s) ==
    LET v == ScanOnce(s, SkipWs(s, 1))
    IN  IF v.ok /\ SkipWs(s, v.next) = Len(s) + 1 THEN v ELSE Bad

---------------------------------------------------------------------------
(* extract_json_from_text                                                  *)

Fence     == <<Tick, Tick, Tick>>
FenceJson == <<Tick, Tick, Tick, "j", "s", "o", "n">>

\* str.replace(old, ''): the occurrences of old, left to right, not
\* overlapping, are removed.
RECURSIVE RemoveFrom(_, _, _)
RemoveFrom(s, old, i) ==
    IF i > Len(s) THEN <<>>
    ELSE IF MatchAt(s, old, i) THEN RemoveFrom(s, old, i + Len(old))
    ELSE <<s[i]>> \o RemoveFrom(s, old, i + 1)

Remove(s, old) == RemoveFrom(s, old, 1)

\* str.find(c) and str.rfind(c) as 1-based positions, 0 for -1.
Find(s, c) == IF \E i \in 1..Len(s) : s[i] = c
              THEN CHOOSE i \in 1..Len(s) : s[i] = c /\ \A k \in 1..(i - 1) : s[k] # c
              ELSE 0
RFind(s, c) == IF \E i \in 1..Len(s) : s[i] = c
               THEN CHOOSE i \in 1..Len(s) : s[i] = c /\ \A k \in (i + 1)..Len(s) : s[k] # c
               ELSE 0

\* text.replace('```json', '').replace('```', '').strip()
CleanText(text) == Strip(Remove(Remove(text, FenceJson), Fence))

\* text[start : end + 1] for the first '{' and the last '}'; the guard
\* start != -1 and end != -1 and end > start.
HasBraces(text) == Find(text, "{") # 0 /\ RFind(text, "}") # 0
                   /\ RFind(text, "}") > Find(text, "{")
BraceText(text) == SubSeq(text, Find(text, "{"), RFind(text, "}"))

\* The outcome of a call: the value returned and the tier that produced it,
\* or the ValueError.
Returned(v, tier) == [raised |-> FALSE, val |-> v, tier |-> tier]
Raised == [raised |-> TRUE, val |-> VNone, tier |-> 0]

\* The fence-stripping tier tried before the verbatim one.
extract_stripping_first(text) ==
    IF JsonLoads(CleanText(text)).ok
    THEN Returned(JsonLoads(CleanText(text)).val, 2)
    ELSE IF JsonLoads(text).ok THEN Returned(JsonLoads(text).val, 1)
    ELSE IF HasBraces(text) /\ JsonLoads(BraceText(text)).ok
         THEN Returned(JsonLoads(BraceText(text)).val, 3)
    ELSE Raised

extract_json_from_text(text) ==
    IF JsonLoads(text).ok THEN Returned(JsonLoads(text).val, 1)
    ELSE IF JsonLoads(CleanText(text)).ok
         THEN Returned(JsonLoads(CleanText(text)).val, 2)
    ELSE IF HasBraces(text) /\ JsonLoads(BraceText(text)).ok
         THEN Returned(JsonLoads(BraceText(text)).val, 3)
    ELSE Raised

---------------------------------------------------------------------------
(* SpecExtract: one call extract_json_from_text(text) on a text made of a  *)
(* body with something before and after it.                                *)

ObjA        == <<"{", Quote, "a", Quote, ":", "1", "}">>
ObjSpaced   == <<"{", " ", Quote, "a", Quote, " ", ":", " ", "1", " ", "}">>
ObjEmpty    == <<"{", "}">>
ObjNested   == <<"{", Quote, "a", Quote, ":", "[", "1", ",", "{", "}", "]", "}">>
ObjFence    == <<"{", Quote, "a", Quote, ":", Quote, Tick, Tick, Tick, Quote, "}">>
ObjTrailing == <<"{", Quote, "a", Quote, ":", "1", ",", "}">>
ArrOne      == <<"[", "1", "]">>
NumOne      == <<"1">>

Bodies == {ObjA, ObjSpaced, ObjEmpty, ObjNested, ObjFence, ObjTrailing, ArrOne, NumOne}

\* The opening and closing lines of a Markdown code fence.
FenceOpeners == {FenceJson \o <<"\n">>, FenceJson}
FenceClosers == {<<"\n">> \o Fence, Fence}

Befores == FenceOpeners \cup {<<>>, <<"H","i"," ">>, <<"[">>, <<"{"," ">>, <<"o","k","}"," ">>}
Afters  == FenceClosers \cup {<<>>, <<" ","o","k">>, <<"]">>, <<" ","}">>, <<"\n">>}

\* The argument of the call.
ExText == ex_pre \o ex_body \o ex_post

InitExtract ==
    /\ PantryStart
    /\ lockScope = "none"
    /\ ex_pre \in Befores
    /\ ex_body \in Bodies
    /\ ex_post \in Afters
    /\ ex_pc = "call"
    /\ ex_result = None
    /\ AssembleIdle
    /\ PersistIdle
    /\ EntryIdle

ExtractCall ==
    /\ ex_pc = "call"
    /\ ex_result' = extract_json_from_text(ExText)
    /\ ex_pc' = "done"
    /\ UNCHANGED <<ex_pre, ex_body, ex_post>>
    /\ UNCHANGED nonExtractVars

NextExtract == ExtractCall

SpecExtract == InitExtract /\ [][NextExtract]_vars

\* Some tier of the extractor parses the text.
SomeTierParses(text) ==
    \/ JsonLoads(text).ok
    \/ JsonLoads(CleanText(text)).ok
    \/ HasBraces(text) /\ JsonLoads(BraceText(text)).ok

\* C5 as stated: a call returns a JSON object or raises, never returns
\* another kind of JSON value, and raises exactly when the text parses
\* neither verbatim, nor fence-stripped, nor from the first '{' to the last '}'.
Cex_C5_ObjectOrError ==
    ex_pc = "done" =>
        /\ ex_result.raised \/ ex_result.val.t = "obj"
        /\ ex_result.raised <=> ~SomeTierParses(ExText)

\* C6: for a text that is valid JSON, the call returns the value of parsing
\* the whole text, from tier 1.
Thm_C6_ValidJsonVerbatim ==
    (ex_pc = "done" /\ JsonLoads(ExText).ok) =>
        ex_result = Returned(JsonLoads(ExText).val, 1)

\* A valid JSON text whose fence-stripped form parses to another value has
\* been returned verbatim.
Wit_C6_VerbatimKeepsFence ==
    /\ ex_pc = "done"
    /\ JsonLoads(ExText).ok
    /\ JsonLoads(CleanText(ExText)).ok
    /\ JsonLoads(CleanText(ExText)).val # JsonLoads(ExText).val
    /\ ex_result.tier = 1

\* The text is a JSON object text wrapped in ```json ... ``` fences.
FencedObject ==
    /\ ex_pre \in FenceOpeners
    /\ ex_post \in FenceClosers
    /\ JsonLoads(ex_body).ok
    /\ JsonLoads(ex_body).val.t = "obj"

\* C7 as stated: for a JSON object text J, also one whose string values hold
\* the fence marker, the call on J wrapped in fences returns what the call
\* on J returns.
Cex_C7_FencedSameAsBare ==
    (ex_pc = "done" /\ FencedObject) =>
        /\ ~ex_result.raised
        /\ ex_result.val = extract_json_from_text(ex_body).val

\* The pairs <<i, j>> of a '{' and the '}' that closes it.
RECURSIVE Depth(_, _, _)
Depth(s, i, j) ==
    IF j < i THEN 0
    ELSE Depth(s, i, j - 1) + (IF s[j] = "{" THEN 1 ELSE IF s[j] = "}" THEN -1 ELSE 0)

BalancedPairs(s) ==
    {q \in (1..Len(s)) \X (1..Len(s)) :
        /\ q[1] < q[2]
        /\ s[q[1]] = "{" /\ s[q[2]] = "}"
        /\ Depth(s, q[1], q[2]) = 0
        /\ \A k \in q[1]..(q[2] - 1) : Depth(s, q[1], k) > 0}

\* The text holds exactly one balanced {...}, and it is the body, a JSON
\* object text.
OneBalancedObject ==
    /\ JsonLoads(ex_body).ok
    /\ JsonLoads(ex_body).val.t = "obj"
    /\ BalancedPairs(ExText) = {<<Len(ex_pre) + 1, Len(ex_pre) + Len(ex_body)>>}

\* C8 as stated: for a text of exactly one balanced {...} JSON object with
\* any prose around it, braces, brackets and fences included, the call
\* returns the parsed object.
Cex_C8_ProseAroundObject ==
    (ex_pc = "done" /\ OneBalancedObject) =>
        /\ ~ex_result.raised
        /\ ex_result.val = JsonLoads(ex_body).val

---------------------------------------------------------------------------
(* The field validators of InstructionSchema and RecipeSchema, and the     *)
(* construction RecipeSchema(data).                                      *)

Prep        == <<"P","r","e","p">>
Cook        == <<"C","o","o","k">>
Serve       == <<"S","e","r","v","e">>
Simplistic  == <<"S","i","m","p","l","i","s","t","i","c">>
Moderate    == <<"M","o","d","e","r","a","t","e">>
Elevated    == <<"E","l","e","v","a","t","e","d">>
Vegetarian  == <<"V","e","g","e","t","a","r","i","a","n">>
Other       == <<"O","t","h","e","r">>
omnivore    == <<"o","m","n","i","v","o","r","e">>
Italian     == <<"I","t","a","l","i","a","n">>
italian     == <<"i","t","a","l","i","a","n">>
Klingon     == <<"K","l","i","n","g","o","n">>
vegan       == <<"v","e","g","a","n">>
Vegan       == <<"V","e","g","a","n">>
keto        == <<"k","e","t","o">>
Chicken     == <<"C","h","i","c","k","e","n">>
chicken     == <<"c","h","i","c","k","e","n">>
tofu        == <<"t","o","f","u">>
Breakfast   == <<"B","r","e","a","k","f","a","s","t">>
breakfast   == <<"b","r","e","a","k","f","a","s","t">>
Dinner      == <<"D","i","n","n","e","r">>
Nonsense    == <<"N","o","n","s","e","n","s","e">>
hard        == <<"h","a","r","d">>
chefLevel   == <<"c","h","e","f"," ","l","e","v","e","l">>
easy        == <<"e","a","s","y">>
weird       == <<"w","e","i","r","d">>
prepLower   == <<"p","r","e","p">>
PlateIt     == <<"P","l","a","t","e"," ","i","t">>
rest        == <<"r","e","s","t">>
CookPadded  == <<" ","c","o","o","k"," ">>

\* validate_phase consulting the Serve rule before the Cook rule.
validate_phase_serve_first(v) ==
    LET v_clean == Title(Strip(v))
        v_lower == Lower(v)
    IN  IF v_clean \in {Prep, Cook, Serve} THEN v_clean
        ELSE IF Contains(v_lower, <<"p","r","e","p">>) THEN Prep
        ELSE IF \/ Contains(v_lower, <<"s","e","r","v","e">>)
                \/ Contains(v_lower, <<"p","l","a","t","e">>)
                \/ Contains(v_lower, <<"a","s","s","e","m","b","l">>) THEN Serve
        ELSE Cook

\* InstructionSchema.validate_phase
validate_phase(v) ==
    LET v_clean == Title(Strip(v))
        v_lower == Lower(v)
    IN  IF v_clean \in {Prep, Cook, Serve} THEN v_clean
        ELSE IF Contains(v_lower, <<"p","r","e","p">>) THEN Prep
        ELSE IF \/ Contains(v_lower, <<"c","o","o","k">>)
                \/ Contains(v_lower, <<"h","e","a","t">>)
                \/ Contains(v_lower, <<"b","a","k","e">>)
                \/ Contains(v_lower, <<"f","r","y">>) THEN Cook
        ELSE IF \/ Contains(v_lower, <<"s","e","r","v","e">>)
                \/ Contains(v_lower, <<"p","l","a","t","e">>)
                \/ Contains(v_lower, <<"a","s","s","e","m","b","l">>) THEN Serve
        ELSE Cook

\* valid_proteins: the examples of every category, lower-cased.
valid_proteins(examples) == {Lower(e) : e \in examples}

\* RecipeSchema.validate_protein_type
validate_protein_type(proteins, v) ==
    IF Lower(v) \notin proteins THEN Vegetarian ELSE Title(v)

\* validate_meal_types comparing the tags without regard to letter case.
validate_meal_types_any_case(valid_meal_tags, v) ==
    SelectSeq(v, LAMBDA tag : Lower(tag) \in {Lower(t) : t \in valid_meal_tags})

\* RecipeSchema.validate_meal_types
validate_meal_types(valid_meal_tags, v) ==
    SelectSeq(v, LAMBDA tag : tag \in valid_meal_tags)

\* validate_cuisine without the title-cased lookup.
validate_cuisine_exact_only(cuisines_data, v) ==
    IF v \notin cuisines_data THEN Other ELSE v

\* RecipeSchema.validate_cuisine
validate_cuisine(cuisines_data, v) ==
    IF v \notin cuisines_data
    THEN IF Title(v) \in cuisines_data THEN Title(v) ELSE Other
    ELSE v

\* RecipeSchema.validate_diet
validate_diet(diets_data, v) ==
    IF Lower(v) \notin diets_data THEN omnivore ELSE Lower(v)

\* validate_difficulty with "Hard" moved to the Elevated rule.
validate_difficulty_hard_elevated(v) ==
    LET v_clean == Title(v)
    IN  IF v_clean \in {Simplistic, Moderate, Elevated} THEN v_clean
        ELSE IF \/ Contains(v_clean, <<"E","a","s","y">>)
                \/ Contains(v_clean, <<"S","i","m","p","l","e">>) THEN Simplistic
        ELSE IF Contains(v_clean, <<"M","e","d","i","u","m">>) THEN Moderate
        ELSE IF \/ Contains(v_clean, <<"H","a","r","d">>)
                \/ Contains(v_clean, <<"C","o","m","p","l","e","x">>)
                \/ Contains(v_clean, <<"A","d","v","a","n","c","e","d">>)
                \/ Contains(v_clean, <<"C","h","e","f">>) THEN Elevated
        ELSE Moderate

\* RecipeSchema.validate_difficulty
validate_difficulty(v) ==
    LET v_clean == Title(v)
    IN  IF v_clean \in {Simplistic, Moderate, Elevated} THEN v_clean
        ELSE IF \/ Contains(v_clean, <<"E","a","s","y">>)
                \/ Contains(v_clean, <<"S","i","m","p","l","e">>) THEN Simplistic
        ELSE IF \/ Contains(v_clean, <<"M","e","d","i","u","m">>)
                \/ Contains(v_clean, <<"H","a","r","d">>) THEN Moderate
        ELSE IF \/ Contains(v_clean, <<"C","o","m","p","l","e","x">>)
                \/ Contains(v_clean, <<"A","d","v","a","n","c","e","d">>)
                \/ Contains(v_clean, <<"C","h","e","f">>) THEN Elevated
        ELSE Moderate

\* The title-cased value is none of the three levels and holds none of the
\* keywords of validate_difficulty.
NoDifficultyRule(v) ==
    /\ Title(v) \notin {Simplistic, Moderate, Elevated}
    /\ \A k \in {<<"E","a","s","y">>, <<"S","i","m","p","l","e">>, <<"M","e","d","i","u","m">>, <<"H","a","r","d">>, <<"C","o","m","p","l","e","x">>, <<"A","d","v","a","n","c","e","d">>, <<"C","h","e","f">>} :
          ~Contains(Title(v), k)

\* cleanup_factor: int = Field(..., ge=1, le=5)
CleanupMin == 1
CleanupMax == 5

\* The range test without its upper end.
CleanupInRangeNoMax(n) == n >= CleanupMin

CleanupInRange(n) == n >= CleanupMin /\ n <= CleanupMax

SchemaError == [raised |-> TRUE, rec |-> None]
Built(rec) == [raised |-> FALSE, rec |-> rec]

\* The fields of the record, each through its validator; `name` is what
\* validate_ingredient_name returned for the ingredient.
Normalized(t, d, name) ==
    [cuisine        |-> validate_cuisine(t.cuisines, d.cuisine),
     diet           |-> validate_diet(t.diets, d.diet),
     difficulty     |-> validate_difficulty(d.difficulty),
     cleanup_factor |-> d.cleanup_factor,
     protein_type   |-> validate_protein_type(valid_proteins(t.protein_examples), d.protein_type),
     meal_types     |-> validate_meal_types(t.meal_tags, d.meal_types),
     ingredient     |-> name,
     phase          |-> validate_phase(d.phase)]

\* RecipeSchema raising on a cuisine outside the table instead of falling
\* back.
RecipeSchemaCuisineChecked(t, d, name) ==
    IF /\ CleanupInRange(d.cleanup_factor)
       /\ (d.cuisine \in t.cuisines \/ Title(d.cuisine) \in t.cuisines)
    THEN Built(Normalized(t, d, name))
    ELSE SchemaError

\* RecipeSchema(data): the record, or the validation error of the one
\* constrained field.
RecipeSchema(t, d, name) ==
    IF CleanupInRange(d.cleanup_factor) THEN Built(Normalized(t, d, name))
    ELSE SchemaError

\* The fields whose validator prints what it received and what it put in
\* its place: the four fallbacks, and an ingredient name that is no exact
\* match (`tier` is the tier that resolved it).
Diagnostics(t, d, tier) ==
    {f \in {"cuisine", "diet", "difficulty", "protein_type", "ingredient"} :
        \/ f = "cuisine" /\ d.cuisine \notin t.cuisines /\ Title(d.cuisine) \notin t.cuisines
        \/ f = "diet" /\ Lower(d.diet) \notin t.diets
        \/ f = "difficulty" /\ NoDifficultyRule(d.difficulty)
        \/ f = "protein_type" /\ Lower(d.protein_type) \notin valid_proteins(t.protein_examples)
        \/ f = "ingredient" /\ tier # "exact"}

\* The strict policy: a value that would take a fallback is an error.
Unmatched(t, d, tier) ==
    \/ d.cuisine \notin t.cuisines /\ Title(d.cuisine) \notin t.cuisines
    \/ Lower(d.diet) \notin t.diets
    \/ validate_difficulty(d.difficulty) # Title(d.difficulty)
       /\ \A k \in {<<"E","a","s","y">>, <<"S","i","m","p","l","e">>, <<"M","e","d","i","u","m">>, <<"H","a","r","d">>, <<"C","o","m","p","l","e","x">>, <<"A","d","v","a","n","c","e","d">>, <<"C","h","e","f">>} :
             ~Contains(Title(d.difficulty), k)
    \/ Lower(d.protein_type) \notin valid_proteins(t.protein_examples)
    \/ validate_meal_types(t.meal_tags, d.meal_types) # d.meal_types
    \/ Title(Strip(d.phase)) \notin {Prep, Cook, Serve}
       /\ \A k \in {<<"p","r","e","p">>, <<"c","o","o","k">>, <<"h","e","a","t">>, <<"b","a","k","e">>, <<"f","r","y">>, <<"s","e","r","v","e">>, <<"p","l","a","t","e">>, <<"a","s","s","e","m","b","l">>} :
             ~Contains(Lower(d.phase), k)
    \/ tier = "import"

AssembleStrict(t, d, o) ==
    IF ~CleanupInRange(d.cleanup_factor) \/ Unmatched(t, d, o.tier) THEN SchemaError
    ELSE Built(Normalized(t, d, o.name))

---------------------------------------------------------------------------
(* SpecAssemble: one construction RecipeSchema(data) on a decoded        *)
(* payload, under tables with and without the fallback values.             *)

TablesFull == [cuisines |-> {Italian, Other}, diets |-> {omnivore, vegan},
               protein_examples |-> {Chicken, Vegetarian}, meal_tags |-> {Breakfast, Dinner}]
TablesBare == [cuisines |-> {Italian}, diets |-> {vegan},
               protein_examples |-> {Chicken}, meal_tags |-> {Breakfast, Dinner}]
TablePool == {TablesFull, TablesBare}

Policies == {"lenient", "strict"}

Payloads ==
    [cuisine        : {Italian, italian, Klingon},
     diet           : {Vegan, vegan, keto},
     difficulty     : {hard, chefLevel, Elevated, easy, weird},
     cleanup_factor : {CleanupMin - 1, CleanupMin, CleanupMax, CleanupMax + 1},
     protein_type   : {chicken, tofu},
     meal_types     : {<<Breakfast, Nonsense>>, <<Breakfast>>, <<Nonsense, breakfast>>,
                       <<Dinner, Breakfast, Dinner>>},
     ingredient     : {Pork, tofu},
     phase          : {prepLower, CookPadded, PlateIt, rest}]

\* The snapshot the request rebuilt the index from.
AssemblePantry == <<[i |-> "000322", n |-> Pork]>>

InitAssemble ==
    /\ PantryHolding(AssemblePantry)
    /\ lockScope = "none"
    /\ ExtractIdle
    /\ as_tables \in TablePool
    /\ as_policy \in Policies
    /\ as_payload \in Payloads
    /\ as_pc = "call"
    /\ as_result = None
    /\ as_diag = {}
    /\ as_again = None
    /\ PersistIdle
    /\ EntryIdle

Assemble ==
    /\ as_pc = "call"
    /\ \E o \in validate_ingredient_name(as_payload.ingredient) :
          /\ as_result' = IF as_policy = "strict"
                          THEN AssembleStrict(as_tables, as_payload, o)
                          ELSE RecipeSchema(as_tables, as_payload, o.name)
          /\ as_diag' = Diagnostics(as_tables, as_payload, o.tier)
    /\ as_pc' = "done"
    /\ UNCHANGED <<as_tables, as_policy, as_payload, as_again>>
    /\ UNCHANGED nonAssembleVars

NextAssemble == Assemble

SpecAssemble == InitAssemble /\ [][NextAssemble]_vars

\* C4 as stated: for all table contents and payloads, every record that
\* assembly returns has each field inside its closed vocabulary: cuisine in
\* the Cuisines table, diet in the Diets table, difficulty one of the three
\* levels, the lower-cased protein_type among the exemplars, every meal tag
\* in the tag set, the phase one of Prep, Cook, Serve, cleanup_factor in 1..5.
Cex_C4_RecordInVocabulary ==
    (as_pc = "done" /\ ~as_result.raised) =>
        /\ as_result.rec.cuisine \in as_tables.cuisines
        /\ as_result.rec.diet \in as_tables.diets
        /\ as_result.rec.difficulty \in {Simplistic, Moderate, Elevated}
        /\ Lower(as_result.rec.protein_type) \in valid_proteins(as_tables.protein_examples)
        /\ \A k \in 1..Len(as_result.rec.meal_types) :
              as_result.rec.meal_types[k] \in as_tables.meal_tags
        /\ as_result.rec.phase \in {Prep, Cook, Serve}
        /\ as_result.rec.cleanup_factor \in CleanupMin..CleanupMax

\* C9: a payload whose cleanup_factor is outside 1..5 ends in the schema
\* error under the strict and under the lenient policy: no record is built,
\* so the value is neither clamped nor replaced.
Thm_C9_CleanupOutOfRangeRejected ==
    (as_pc = "done" /\ as_payload.cleanup_factor \notin 1..5) =>
        as_result = SchemaError

\* A cleanup_factor of 6 has been rejected under the lenient policy, in a
\* payload whose other fields all match.
Wit_C9_SixRejectedLenient ==
    /\ as_pc = "done"
    /\ as_policy = "lenient"
    /\ as_payload.cleanup_factor = 6
    /\ ~Unmatched(as_tables, as_payload, "exact")
    /\ as_result = SchemaError

\* C10: cuisine normalization returns the input when it is an entry of the
\* Cuisines table, the title-cased input when only that is an entry, "Other"
\* otherwise, and never makes the construction fail.
Thm_C10_CuisineNormalization ==
    (as_pc = "done" /\ as_policy = "lenient" /\ as_payload.cleanup_factor \in 1..5) =>
        /\ ~as_result.raised
        /\ as_payload.cuisine \in as_tables.cuisines =>
              as_result.rec.cuisine = as_payload.cuisine
        /\ (/\ as_payload.cuisine \notin as_tables.cuisines
            /\ Title(as_payload.cuisine) \in as_tables.cuisines) =>
              as_result.rec.cuisine = Title(as_payload.cuisine)
        /\ (/\ as_payload.cuisine \notin as_tables.cuisines
            /\ Title(as_payload.cuisine) \notin as_tables.cuisines) =>
              as_result.rec.cuisine = Other

\* A cuisine that is an entry only once title-cased has been returned
\* title-cased.
Wit_C10_TitleCasedEntry ==
    /\ as_pc = "done"
    /\ ~as_result.raised
    /\ as_payload.cuisine = italian
    /\ as_result.rec.cuisine = Italian

\* The construction ran under the policy of the code on a payload whose
\* cleanup_factor is in range.
LenientDone ==
    /\ as_pc = "done"
    /\ as_policy = "lenient"
    /\ CleanupInRange(as_payload.cleanup_factor)

\* C11: difficulty normalization never fails and returns one of Simplistic,
\* Moderate, Elevated; "hard" gives Moderate, "chef level" gives Elevated, a
\* value that matches no rule gives Moderate.
Thm_C11_DifficultyTotal ==
    LenientDone =>
        /\ ~as_result.raised
        /\ as_result.rec.difficulty \in {Simplistic, Moderate, Elevated}
        /\ as_payload.difficulty = hard => as_result.rec.difficulty = Moderate
        /\ as_payload.difficulty = chefLevel => as_result.rec.difficulty = Elevated
        /\ NoDifficultyRule(as_payload.difficulty) => as_result.rec.difficulty = Moderate

\* "hard" has been normalized to Moderate.
Wit_C11_HardIsModerate ==
    /\ LenientDone
    /\ as_payload.difficulty = hard
    /\ as_result.rec.difficulty = Moderate

\* The positions of v whose tag is in the tag set, and the k-th of them.
KeptPositions(v, tags) == {i \in 1..Len(v) : v[i] \in tags}
KthKept(v, tags, k) ==
    CHOOSE i \in KeptPositions(v, tags) :
        Cardinality({j \in KeptPositions(v, tags) : j <= i}) = k

\* C12: the normalized meal_types are the input tags that are, letter for
\* letter, in the tag set, in input order and as often as in the input:
\* nothing is added, and the list may be empty.
Thm_C12_MealTypesFiltered ==
    LenientDone =>
        /\ ~as_result.raised
        /\ Len(as_result.rec.meal_types) =
              Cardinality(KeptPositions(as_payload.meal_types, as_tables.meal_tags))
        /\ \A k \in 1..Len(as_result.rec.meal_types) :
              as_result.rec.meal_types[k] =
                 as_payload.meal_types[KthKept(as_payload.meal_types, as_tables.meal_tags, k)]

\* ["Breakfast", "Nonsense"] has been normalized to ["Breakfast"].
Wit_C12_NonsenseDropped ==
    /\ LenientDone
    /\ as_payload.meal_types = <<Breakfast, Nonsense>>
    /\ as_result.rec.meal_types = <<Breakfast>>

---------------------------------------------------------------------------
(* C13: the resolver on any name, over any state of the Pantry Index.      *)

\* Some pantry name matches the normalized name in one of the three tiers.
SomeMatch(names, v_norm) ==
    \E p \in names :
        \/ p = v_norm
        \/ RatioAtLeastCutoff(Ratio(p, v_norm))
        \/ Contains(p, v_norm)
        \/ Contains(v_norm, p)

\* C13: for every raw name and every state of the Pantry Index the resolver
\* returns, and what it returns is a member of the pantry name set or the
\* lower-cased, trimmed raw name, the latter only when no pantry name
\* matches exactly, by similarity or as a substring.
Thm_C13_ResolverResult ==
    raw[1] # None =>
        \/ resolved[1].name \in pantry_names
        \/ /\ resolved[1].name = Strip(Lower(raw[1]))
           /\ ~SomeMatch(pantry_names, Strip(Lower(raw[1])))

\* Against a non-empty pantry a name that matches nothing has come back
\* lower-cased as an import name.
Wit_C13_ImportName ==
    /\ raw[1] # None
    /\ pantry_names # {}
    /\ raw[1] = Ham
    /\ resolved[1] = [name |-> Lower(Ham), tier |-> "import"]

---------------------------------------------------------------------------
(* SpecRequest: one generation request from its rebuild to the identifier  *)
(* lookup of the route, alone in the process.                              *)

Avocado    == <<"A","v","o","c","a","d","o">>
avocado    == <<"a","v","o","c","a","d","o">>
mincedPork == <<"m","i","n","c","e","d"," ","p","o","r","k">>
mincedBeef == <<"m","i","n","c","e","d"," ","b","e","e","f">>
orName     == <<"o","r">>

ReqItemPool == {[i |-> "000322", n |-> Avocado], [i |-> "17", n |-> avocado],
                [i |-> "21", n |-> pork], [i |-> "5", n |-> mincedBeef],
                [i |-> "8", n |-> orName], [i |-> "6", n |-> hamSpace],
                [i |-> "7", n |-> Ham]}

ReqSnapshots == UNION {[1..k -> ReqItemPool] : k \in 1..MaxItems}

ReqRawNames == {mincedPork, avocado, hamSpace, pork}

InitRequest ==
    /\ PantryStart
    /\ lockScope = "none"
    /\ ExtractIdle
    /\ AssembleIdle
    /\ PersistIdle
    /\ EntryIdle

NextRequest ==
    \/ \E S \in ReqSnapshots : RequestStart(1, S)
    \/ EnterRebuild(1)
    \/ ClearMap(1)
    \/ ClearNames(1, "rebuilt")
    \/ StoreId(1)
    \/ AddName(1, "rebuilt")
    \/ LeaveRebuild(1)
    \/ \E v \in ReqRawNames : AIResponse(1, v)
    \/ RequestValidate(1)
    \/ RequestLookup(1)

SpecRequest == InitRequest /\ [][NextRequest]_vars

\* The request has resolved its ingredient name.
Resolved == pc[1] \in {"lookup", "done"}

\* C14 as stated: with "pork" in the pantry, whatever else is in it, the raw
\* name "minced pork" resolves to "pork".
Cex_C14_MincedPorkIsPork ==
    (Resolved /\ pork \in pantry_names /\ raw[1] = mincedPork) =>
        resolved[1].name = pork

\* No pantry name but `keep` matches v_norm by similarity or as a substring.
NoOtherMatch(names, keep, v_norm) ==
    \A p \in names \ {keep} :
        /\ ~RatioAtLeastCutoff(Ratio(p, v_norm))
        /\ ~Contains(p, v_norm)
        /\ ~Contains(v_norm, p)

\* C14 amended: with "pork" in the pantry and no other pantry name that
\* reaches the similarity cutoff with "minced pork", is contained in it or
\* contains it, the raw name "minced pork" resolves to "pork", through the
\* substring tier.
Thm_C14_MincedPorkAlone ==
    (/\ Resolved /\ pork \in pantry_names /\ raw[1] = mincedPork
     /\ NoOtherMatch(pantry_names, pork, mincedPork)) =>
        resolved[1] = [name |-> pork, tier |-> "substring"]

\* "minced pork" has resolved to "pork" in a pantry of two names.
Wit_C14_PorkAmongOthers ==
    /\ Resolved /\ raw[1] = mincedPork
    /\ Cardinality(pantry_names) = 2
    /\ resolved[1] = [name |-> pork, tier |-> "substring"]

\* C15 as stated: for every item of the snapshot, with identifier s and name
\* N, resolving the lower-cased N after the rebuild returns the lower-cased N
\* by exact match, and get_pantry_id of that result returns s itself.
Cex_C15_IdentifierRoundTrip ==
    pc[1] = "done" =>
        \A k \in 1..Len(ctx[1]) :
            raw[1] = Lower(ctx[1][k].n) =>
                /\ resolved[1] = [name |-> Lower(ctx[1][k].n), tier |-> "exact"]
                /\ food_id[1] = ctx[1][k].i

---------------------------------------------------------------------------
(* C18, C19: the two policies, and the diagnostics of the validators.      *)

Coerced ==
    {f \in {"cuisine", "diet", "difficulty", "protein_type", "meal_types",
            "phase", "ingredient"} : as_result.rec[f] # as_payload[f]}

\* C19 as stated: every field returned different from what was received has
\* a diagnostic of what was received and what was put in its place.
Cex_C19_EveryCoercionDiagnosed ==
    LenientDone => Coerced \subseteq as_diag

---------------------------------------------------------------------------
(* SpecPersist: the "Save to DB" part of the routes generate and           *)
(* generate_from_video, from the validated recipe to the end of the        *)
(* request. db.session is the request's session of Flask-SQLAlchemy:       *)
(* rows are pending until commit(), and the session is removed, its        *)
(* pending rows with it, when the request ends.                            *)

MaxIngredients == 2
MaxInstructions == 2

Routes == {"text", "video"}

\* The validated names of the recipe's ingredients, over all groups, and the
\* number of its instructions.
Recipes ==
    [ingredients  : UNION {[1..k -> {pork, tofu}] : k \in 0..MaxIngredients},
     instructions : 0..MaxInstructions]

\* Ingredient.food_id of the rows of the Ingredient table.
IngredientTables == {{"000322"}, {}}

RecipeRow == <<"recipe">>
RecipeIngredientRow(k, food_id_str) == <<"recipe_ingredient", k, food_id_str>>
InstructionRow(k) == <<"instruction", k>>

\* db.session.commit() where the code has db.session.flush().
FlushCommits(committed, pending) ==
    [committed |-> committed \cup pending, pending |-> {}]

\* db.session.flush(): the rows get their keys and stay uncommitted.
Flush(committed, pending) == [committed |-> committed, pending |-> pending]

\* db.session.commit()
Commit(committed, pending) ==
    [committed |-> committed \cup pending, pending |-> {}]

\* What the handler of the raised ValueError leaves pending: generate has
\* `except ValueError` without a rollback, generate_from_video catches
\* Exception and rolls back.
AfterValueError(route, pending) == IF route = "video" THEN {} ELSE pending

InitPersist ==
    /\ PantryHolding(AssemblePantry)
    /\ lockScope = "none"
    /\ ExtractIdle
    /\ AssembleIdle
    /\ pr_route \in Routes
    /\ pr_table \in IngredientTables
    /\ pr_recipe \in Recipes
    /\ pr_pc = "save"
    /\ pr_i = 0
    /\ pr_pending = {} /\ pr_committed = {}
    /\ pr_outcome = None
    /\ EntryIdle

\* The loop over the ingredients is over when k passes the last one.
AfterIngredients(k) ==
    IF k > Len(pr_recipe.ingredients) THEN "instructions" ELSE "ingredients"

\* new_recipe = Recipe(...); db.session.add(new_recipe); db.session.flush()
SaveRecipe ==
    /\ pr_pc = "save"
    /\ LET f == Flush(pr_committed, pr_pending \cup {RecipeRow})
       IN  pr_committed' = f.committed /\ pr_pending' = f.pending
    /\ pr_i' = 1
    /\ pr_pc' = AfterIngredients(1)
    /\ UNCHANGED <<pr_route, pr_table, pr_recipe, pr_outcome>>
    /\ UNCHANGED nonPersistVars

\* One turn of the ingredient loops: the identifier lookup, the lookup in
\* the Ingredient table, and the RecipeIngredient row; either lookup
\* failing raises ValueError, which ends the route.
SaveIngredient ==
    /\ pr_pc = "ingredients"
    /\ LET food_id_str == get_pantry_id(pr_recipe.ingredients[pr_i])
       IN  IF food_id_str = None \/ food_id_str \notin pr_table
           THEN /\ pr_pending' = AfterValueError(pr_route, pr_pending)
                /\ pr_outcome' = "error"
                /\ pr_pc' = "returned"
                /\ pr_i' = pr_i
           ELSE /\ pr_pending' = pr_pending \cup {RecipeIngredientRow(pr_i, food_id_str)}
                /\ pr_outcome' = pr_outcome
                /\ pr_pc' = AfterIngredients(pr_i + 1)
                /\ pr_i' = IF pr_i = Len(pr_recipe.ingredients) THEN 1 ELSE pr_i + 1
    /\ UNCHANGED <<pr_route, pr_table, pr_recipe, pr_committed>>
    /\ UNCHANGED nonPersistVars

\* generate, instruction loop: the commit and the return are inside the
\* loop body, so the first turn adds one Instruction, commits and answers.
TextFirstInstruction ==
    /\ pr_pc = "instructions" /\ pr_route = "text"
    /\ pr_recipe.instructions >= 1
    /\ LET c == Commit(pr_committed, pr_pending \cup {InstructionRow(1)})
       IN  pr_committed' = c.committed /\ pr_pending' = c.pending
    /\ pr_outcome' = "redirect"
    /\ pr_pc' = "returned"
    /\ UNCHANGED <<pr_route, pr_table, pr_recipe, pr_i>>
    /\ UNCHANGED nonPersistVars

\* generate with no instruction: the loop body never runs, and the view
\* ends without a commit and without a response.
TextNoInstruction ==
    /\ pr_pc = "instructions" /\ pr_route = "text"
    /\ pr_recipe.instructions = 0
    /\ pr_outcome' = "no_response"
    /\ pr_pc' = "returned"
    /\ UNCHANGED <<pr_route, pr_table, pr_recipe, pr_i, pr_pending, pr_committed>>
    /\ UNCHANGED nonPersistVars

\* generate_from_video, instruction loop: one Instruction per turn.
VideoInstruction ==
    /\ pr_pc = "instructions" /\ pr_route = "video"
    /\ pr_i <= pr_recipe.instructions
    /\ pr_pending' = pr_pending \cup {InstructionRow(pr_i)}
    /\ pr_i' = pr_i + 1
    /\ UNCHANGED <<pr_route, pr_table, pr_recipe, pr_pc, pr_committed, pr_outcome>>
    /\ UNCHANGED nonPersistVars

\* generate_from_video after the loop: db.session.commit() and the redirect.
VideoCommit ==
    /\ pr_pc = "instructions" /\ pr_route = "video"
    /\ pr_i > pr_recipe.instructions
    /\ LET c == Commit(pr_committed, pr_pending)
       IN  pr_committed' = c.committed /\ pr_pending' = c.pending
    /\ pr_outcome' = "redirect"
    /\ pr_pc' = "returned"
    /\ UNCHANGED <<pr_route, pr_table, pr_recipe, pr_i>>
    /\ UNCHANGED nonPersistVars

\* The request ends: Flask-SQLAlchemy removes the session, and what is
\* pending is rolled back.
Teardown ==
    /\ pr_pc = "returned"
    /\ pr_pending' = {}
    /\ pr_pc' = "closed"
    /\ UNCHANGED <<pr_route, pr_table, pr_recipe, pr_i, pr_committed, pr_outcome>>
    /\ UNCHANGED nonPersistVars

NextPersist ==
    \/ SaveRecipe
    \/ SaveIngredient
    \/ TextFirstInstruction
    \/ TextNoInstruction
    \/ VideoInstruction
    \/ VideoCommit
    \/ Teardown

SpecPersist == InitPersist /\ [][NextPersist]_vars

\* Some ingredient of the recipe has a name without identifier in the map.
HasImportName ==
    \E k \in 1..Len(pr_recipe.ingredients) :
        get_pantry_id(pr_recipe.ingredients[k]) = None

\* C16: when an ingredient of the validated recipe has no identifier in the
\* pantry map, no row of the request is ever committed, on either route,
\* and the request ends with an error: the ingredient is not skipped.
Thm_C16_ImportNameIsFatal ==
    HasImportName =>
        /\ pr_committed = {}
        /\ pr_pc \in {"returned", "closed"} => pr_outcome = "error"
        /\ pr_pc = "closed" => pr_pending = {}

\* The text route has ended with an error on a recipe whose second
\* ingredient has no identifier, after the first one was added.
Wit_C16_SecondIngredientFails ==
    /\ pr_pc = "closed" /\ pr_route = "text"
    /\ pr_recipe.ingredients = <<pork, tofu>>
    /\ pr_i = 2
    /\ pr_outcome = "error"
    /\ pr_committed = {}

---------------------------------------------------------------------------
(* SpecEntry: the three entry points generate_recipe_ai,                   *)
(* generate_recipe_from_video and generate_recipe_from_web_text, called    *)
(* with a configured client and without snapshot. generate_recipe_ai and   *)
(* generate_recipe_from_web_text are followed from the return of           *)
(* generate_content, generate_recipe_from_video from the upload.           *)

MaxPolls == 3

Entries == {"ai", "video", "web"}

\* response.text: bare, in prose, fenced, malformed, not an object, empty.
EntryTexts ==
    {ObjA,
     <<"H","i"," ">> \o ObjA \o <<" ","o","k">>,
     FenceJson \o <<"\n">> \o ObjA \o <<"\n">> \o Fence,
     ObjTrailing,
     ArrOne,
     <<>>}

\* The fields of the object in response.text: all valid, and one violating
\* the range of cleanup_factor.
GoodPayload ==
    [cuisine |-> Italian, diet |-> vegan, difficulty |-> Elevated,
     cleanup_factor |-> CleanupMin, protein_type |-> chicken,
     meal_types |-> <<Breakfast>>, ingredient |-> Pork, phase |-> prepLower]
BadPayload == [GoodPayload EXCEPT !.cleanup_factor = CleanupMax + 1]
EntryPayloads == {GoodPayload, BadPayload}

\* response.parsed: None, or the instance the SDK built.
ParsedValues == {"none", "record"}

FileStates == {"PROCESSING", "ACTIVE", "FAILED"}

InitEntry ==
    /\ PantryHolding(AssemblePantry)
    /\ lockScope = "none"
    /\ ExtractIdle
    /\ AssembleIdle
    /\ PersistIdle
    /\ en_entry \in Entries
    /\ en_text \in EntryTexts
    /\ en_payload \in EntryPayloads
    /\ en_parsed \in IF en_entry = "web" THEN ParsedValues ELSE {"none"}
    /\ en_pc = IF en_entry = "video" THEN "upload" ELSE "respond"
    /\ en_outcome = None
    /\ file_state = None
    /\ polls = 0

Ended(kind, cause) == [kind |-> kind, cause |-> cause]

\* file_ref = client.files.upload(file=video_path): the file is accepted in
\* some state, or the upload raises and the function raises ValueError.
VideoUpload ==
    /\ en_pc = "upload"
    /\ \/ /\ file_state' \in FileStates
          /\ en_pc' = "poll"
          /\ en_outcome' = en_outcome
       \/ /\ file_state' = file_state
          /\ en_pc' = "raised"
          /\ en_outcome' = Ended("raised", "upload")
    /\ UNCHANGED <<en_entry, en_text, en_payload, en_parsed, polls>>
    /\ UNCHANGED nonEntryVars

\* The service finishes processing the file: the flag turns terminal.
FlagChange ==
    /\ file_state = "PROCESSING"
    /\ file_state' \in {"ACTIVE", "FAILED"}
    /\ UNCHANGED <<en_entry, en_text, en_payload, en_parsed, en_pc, en_outcome, polls>>
    /\ UNCHANGED nonEntryVars

\* A wait loop that gives up after MaxPolls sleeps.
PollOutcomeCapped(state, n) ==
    IF state = "ACTIVE" THEN "break"
    ELSE IF state = "FAILED" \/ n >= MaxPolls THEN "raise"
    ELSE "sleep"

\* One turn of `while True:` on the state just read, after n sleeps.
PollOutcome(state, n) ==
    IF state = "ACTIVE" THEN "break"
    ELSE IF state = "FAILED" THEN "raise"
    ELSE "sleep"

\* time.sleep(2), counted up to MaxPolls.
Slept(n) == IF n < MaxPolls THEN n + 1 ELSE n

\* file_info = client.files.get(...) and the test of file_info.state.
VideoPoll ==
    /\ en_pc = "poll"
    /\ LET what == PollOutcome(file_state, polls)
       IN  /\ en_pc' = IF what = "break" THEN "prepare"
                       ELSE IF what = "raise" THEN "raised" ELSE "poll"
           /\ en_outcome' = IF what = "raise" THEN Ended("raised", "processing")
                            ELSE en_outcome
           /\ polls' = IF what = "sleep" THEN Slept(polls) ELSE polls
    /\ UNCHANGED <<en_entry, en_text, en_payload, en_parsed, file_state>>
    /\ UNCHANGED nonEntryVars

\* The prompt is built (slim_context is None: no rebuild) and
\* generate_content returns.
VideoGenerate ==
    /\ en_pc = "prepare"
    /\ en_pc' = "respond"
    /\ UNCHANGED <<en_entry, en_text, en_payload, en_parsed, en_outcome, file_state, polls>>
    /\ UNCHANGED nonEntryVars

\* data = extract_json_from_text(response.text); RecipeSchema(data):
\* "extraction" when the extractor raises, "schema" when the value is no
\* object or the construction raises, "ok" otherwise.
ParseResult(text, d) ==
    LET ex == extract_json_from_text(text)
    IN  IF ex.raised THEN {"extraction"}
        ELSE IF ex.val.t # "obj" THEN {"schema"}
        ELSE {IF RecipeSchema(TablesFull, d, o.name).raised THEN "schema" ELSE "ok" :
                 o \in validate_ingredient_name(d.ingredient)}

\* What the except clause around the parse makes of a failure: re-raised as
\* ValueError by generate_recipe_ai and generate_recipe_from_video, turned
\* into `return None` by generate_recipe_from_web_text.
Handled(entry, cause) ==
    IF entry = "web" THEN Ended("none", cause) ELSE Ended("raised", cause)

\* generate_recipe_from_web_text parses response.text itself.
ManualParse == en_parsed = "none" /\ en_text # <<>>

\* The end of the entry point, from the response on.
EntryParse ==
    /\ en_pc = "respond"
    /\ IF en_entry = "web" /\ ~ManualParse
       THEN en_outcome' = IF en_parsed = "none" THEN Ended("none", "ok")
                          ELSE Ended("record", "ok")
       ELSE \E cause \in ParseResult(en_text, en_payload) :
               en_outcome' = IF cause = "ok" THEN Ended("record", "ok")
                             ELSE Handled(en_entry, cause)
    /\ en_pc' = "done"
    /\ UNCHANGED <<en_entry, en_text, en_payload, en_parsed, file_state, polls>>
    /\ UNCHANGED nonEntryVars

\* The steps of the calling thread.
EntryStep == VideoUpload \/ VideoPoll \/ VideoGenerate \/ EntryParse

NextEntry == EntryStep \/ FlagChange

SpecEntry == InitEntry /\ [][NextEntry]_vars

\* The thread of the call keeps taking the turns of its loop; nothing
\* obliges the service to finish processing.
SpecEntryLive == SpecEntry /\ WF_vars(VideoPoll)

\* C17 as stated: at every entry point an extraction failure or a schema
\* violation reaches the caller as a raised failure, never as a normal
\* return value.
Cex_C17_FailuresAreRaised ==
    (/\ en_pc = "done"
     /\ en_entry = "web" => ManualParse
     /\ ParseResult(en_text, en_payload) # {"ok"})
        => en_outcome.kind = "raised"

\* C20: the wait loop is left only on reading ACTIVE, to go on, or FAILED,
\* to raise; once the flag is terminal the loop is left; while the flag
\* stays non-terminal the loop goes on, whatever the number of turns.
Thm_C20_WaitLoop ==
    /\ [][(en_pc = "poll" /\ en_pc' # "poll") =>
            \/ file_state = "ACTIVE" /\ en_pc' = "prepare"
            \/ file_state = "FAILED" /\ en_pc' = "raised"]_vars
    /\ (en_pc = "poll" /\ file_state # "PROCESSING") ~> (en_pc # "poll")
    /\ []((en_pc = "poll" /\ [](file_state = "PROCESSING")) => [](en_pc = "poll"))

\* The loop has slept MaxPolls times and then went on when the flag read
\* ACTIVE.
Wit_C20_LeftAfterManyPolls ==
    /\ en_pc = "prepare"
    /\ polls = MaxPolls
    /\ file_state = "ACTIVE"

---------------------------------------------------------------------------
(* SpecNormalize: one construction RecipeSchema(data) followed by a second *)
(* construction from the fields of the record the first one returned, over *)
(* difficulty and phase values that meet several rules at once.            *)

masterchef  == <<"m","a","s","t","e","r","c","h","e","f">>
easyHard    == <<"E","A","S","Y"," ","h","a","r","d">>
hardChef    == <<"h","a","r","d"," ","c","h","e","f">>
elevated    == <<"e","l","e","v","a","t","e","d">>
serveFry    == <<"s","e","r","v","e"," ","a","n","d"," ","f","r","y">>
platePrep   == <<"p","l","a","t","e"," ","P","R","E","P">>
ASSEMBLE    == <<"A","S","S","E","M","B","L","E">>
servePadded == <<" ","s","e","r","v","e"," ">>
hamB        == <<"h","a","m"," ","b">>

NormPayloads ==
    [cuisine        : {italian, Klingon},
     diet           : {Vegan, keto},
     difficulty     : {hard, chefLevel, Elevated, elevated, easy, weird, masterchef,
                       easyHard, hardChef},
     cleanup_factor : {CleanupMin},
     protein_type   : {chicken, tofu},
     meal_types     : {<<Breakfast, Nonsense>>},
     ingredient     : {Pork, hamB},
     phase          : {prepLower, CookPadded, PlateIt, rest, serveFry, platePrep,
                       ASSEMBLE, servePadded}]

\* Snapshots the index was rebuilt from: one item, and two items of which
\* the first carries a trailing blank in its name.
NormPantries == {AssemblePantry,
                 <<[i |-> "6", n |-> hamSpace], [i |-> "7", n |-> Ham]>>}

InitNormalize ==
    /\ \E S \in NormPantries : PantryHolding(S)
    /\ lockScope = "none"
    /\ ExtractIdle
    /\ as_tables \in TablePool
    /\ as_policy = "lenient"
    /\ as_payload \in NormPayloads
    /\ as_pc = "call"
    /\ as_result = None
    /\ as_diag = {}
    /\ as_again = None
    /\ PersistIdle
    /\ EntryIdle

\* RecipeSchema(data) on the fields of the record just built, same
\* tables, same Pantry Index.
Reassemble ==
    /\ as_pc = "done"
    /\ ~as_result.raised
    /\ \E o \in validate_ingredient_name(as_result.rec.ingredient) :
          as_again' = RecipeSchema(as_tables, as_result.rec, o.name)
    /\ as_pc' = "again"
    /\ UNCHANGED <<as_tables, as_policy, as_payload, as_result, as_diag>>
    /\ UNCHANGED nonAssembleVars

NextNormalize == Assemble \/ Reassemble

SpecNormalize == InitNormalize /\ [][NextNormalize]_vars

\* The value holds the word, in any letter case, at any position.
Holds(v, word) == Contains(Lower(v), Lower(word))

\* C21 as stated: a difficulty that is no title-cased exact match gives
\* Simplistic when it holds "easy" or "simple" at any position and in any
\* letter case; otherwise Moderate when it holds "medium" or "hard";
\* otherwise Elevated when it holds "complex", "advanced" or "chef";
\* otherwise Moderate.
Cex_C21_DifficultyRulesInOrder ==
    LET v == as_payload.difficulty
        out == as_result.rec.difficulty
    IN  (LenientDone /\ Title(v) \notin {Simplistic, Moderate, Elevated}) =>
            out = IF Holds(v, <<"e","a","s","y">>) \/ Holds(v, <<"s","i","m","p","l","e">>)
                    THEN Simplistic
                  ELSE IF Holds(v, <<"m","e","d","i","u","m">>) \/ Holds(v, <<"h","a","r","d">>)
                    THEN Moderate
                  ELSE IF \/ Holds(v, <<"c","o","m","p","l","e","x">>)
                          \/ Holds(v, <<"a","d","v","a","n","c","e","d">>)
                          \/ Holds(v, <<"c","h","e","f">>)
                    THEN Elevated
                  ELSE Moderate

\* C22: phase normalization never fails and returns the stripped,
\* title-cased value when that is Prep, Cook or Serve; otherwise Prep for a
\* value holding "prep", else Cook for one holding "cook", "heat", "bake" or
\* "fry", else Serve for one holding "serve", "plate" or "assembl", else
\* Cook.
Thm_C22_PhaseTotalInOrder ==
    LET v == as_payload.phase
        out == as_result.rec.phase
    IN  LenientDone =>
            /\ ~as_result.raised
            /\ out \in {Prep, Cook, Serve}
            /\ out = IF Title(Strip(v)) \in {Prep, Cook, Serve} THEN Title(Strip(v))
                     ELSE IF Holds(v, prepLower) THEN Prep
                     ELSE IF \E w \in {<<"c","o","o","k">>, <<"h","e","a","t">>,
                                       <<"b","a","k","e">>, <<"f","r","y">>} : Holds(v, w)
                       THEN Cook
                     ELSE IF \E w \in {<<"s","e","r","v","e">>, <<"p","l","a","t","e">>,
                                       <<"a","s","s","e","m","b","l">>} : Holds(v, w)
                       THEN Serve
                     ELSE Cook

\* "serve and fry" meets the Cook rule before the Serve rule.
Wit_C22_CookBeforeServe ==
    /\ LenientDone
    /\ as_payload.phase = serveFry
    /\ as_result.rec.phase = Cook

\* C27 as stated: the record built from the fields of an assembled record,
\* with the same Pantry Index and tables, is that record.
Cex_C27_NormalizationIdempotent ==
    as_pc = "again" => as_again = as_result

---------------------------------------------------------------------------
(* C23, C24, C25, C29: the tiers of the resolver and the keys of the       *)
(* Pantry Index.                                                           *)

\* The pantry names that reach the similarity cutoff with v_norm.
Reaching(names, v_norm) == {p \in names : RatioAtLeastCutoff(Ratio(p, v_norm))}

\* p scores at least as high as q against v_norm.
ScoresAtLeast(p, q, v_norm) ==
    Ratio(p, v_norm)[1] * Ratio(q, v_norm)[2] >= Ratio(q, v_norm)[1] * Ratio(p, v_norm)[2]

\* C23: a normalized name present in the pantry set is returned unchanged;
\* otherwise, when some pantry name reaches the cutoff, the closest one is
\* returned by the fuzzy tier, whatever the substring relations; the
\* substring tier is used only when no pantry name reaches the cutoff.
Thm_C23_TiersInOrder ==
    Resolved =>
        LET v_norm == Strip(Lower(raw[1]))
            reach == Reaching(pantry_names, v_norm)
        IN  IF v_norm \in pantry_names
              THEN resolved[1] = [name |-> v_norm, tier |-> "exact"]
            ELSE IF reach # {}
              THEN /\ resolved[1].tier = "fuzzy"
                   /\ resolved[1].name \in reach
                   /\ \A p \in reach : ScoresAtLeast(resolved[1].name, p, v_norm)
            ELSE resolved[1].tier \in {"substring", "import"}

\* The fuzzy tier has answered although another pantry name is a substring
\* of the normalized name.
Wit_C23_FuzzyOverSubstring ==
    /\ Resolved
    /\ resolved[1].tier = "fuzzy"
    /\ \E p \in pantry_names \ {resolved[1].name} : Contains(Strip(Lower(raw[1])), p)

\* C24 as stated: after any rebuild every key of the map and every member
\* of the name set is lower-cased and trimmed, and every item of the
\* snapshot is found by exact match on its trimmed, lower-cased name.
Cex_C24_KeysTrimmed ==
    (pc[1] = "idle" /\ ctx[1] # <<>>) =>
        /\ \A k \in (DOMAIN pantry_map) \cup pantry_names : k = Strip(Lower(k))
        /\ \A j \in 1..Len(ctx[1]) : Strip(Lower(ctx[1][j].n)) \in pantry_names

\* The position of the last item of S whose lower-cased name is that of
\* item j.
LastSameName(S, j) ==
    CHOOSE k \in j..Len(S) :
        /\ Lower(S[k].n) = Lower(S[j].n)
        /\ \A l \in (k + 1)..Len(S) : Lower(S[l].n) # Lower(S[j].n)

\* C25: after the rebuild from a snapshot, the map holds for every item the
\* identifier of the last item with the same lower-cased name, the name set
\* is the set of the lower-cased names, and get_pantry_id answers with that
\* last identifier.
Thm_C25_LastWriterWins ==
    (pc[1] = "idle" /\ ctx[1] # <<>>) =>
        /\ \A j \in 1..Len(ctx[1]) :
              /\ pantry_map[Lower(ctx[1][j].n)] = ctx[1][LastSameName(ctx[1], j)].i
              /\ (query # None /\ query = ctx[1][j].n) =>
                    answer = ctx[1][LastSameName(ctx[1], j)].i
        /\ pantry_names = {Lower(ctx[1][j].n) : j \in 1..Len(ctx[1])}
        /\ DOMAIN pantry_map = pantry_names

\* After the rebuild from "Pork" (000322) followed by "pork" (17),
\* get_pantry_id("Pork") has answered 17.
Wit_C25_LaterIdentifier ==
    /\ pc[1] = "idle"
    /\ Len(ctx[1]) = 2
    /\ ctx[1][1] = [i |-> "000322", n |-> Pork]
    /\ ctx[1][2] = [i |-> "17", n |-> pork]
    /\ query # None /\ query = Pork
    /\ answer = "17"

\* C29: against a non-empty pantry name set, a raw name that is empty after
\* lower-casing and trimming resolves through the substring tier to a pantry
\* name, which has an identifier; it is not returned as an import name.
Thm_C29_EmptyNameBound ==
    (/\ pc[1] = "idle" /\ raw[1] # None
     /\ Strip(Lower(raw[1])) = <<>> /\ pantry_names # {}) =>
        /\ resolved[1].tier = "substring"
        /\ resolved[1].name \in pantry_names
        /\ get_pantry_id(resolved[1].name) # None

\* The empty name has resolved to a pantry name out of two.
Wit_C29_EmptyNameResolved ==
    /\ pc[1] = "idle" /\ raw[1] # None /\ raw[1] = <<>>
    /\ Cardinality(pantry_names) = 2
    /\ resolved[1].tier = "substring"

---------------------------------------------------------------------------
(* SpecSession: two generation requests one after the other in one         *)
(* process; each passes a snapshot, an empty snapshot or none (None also   *)
(* stands for generate_recipe_from_web_text, which takes no snapshot).     *)

SessItemPool == {[i |-> "21", n |-> pork], [i |-> "7", n |-> Ham]}

\* The argument slim_context: None (none |-> TRUE), or a list.
SessSnapshots ==
    {[none |-> TRUE, list |-> <<>>]} \cup
    {[none |-> FALSE, list |-> L] :
        L \in UNION {[1..k -> SessItemPool] : k \in 0..MaxItems}}

SessRawNames == {Pork, mincedPork}

\* `if slim_context is not None:` in place of the truth test.
TruthyNotNone(S) == ~S.none

\* `if slim_context:` is taken for a non-empty list only.
Truthy(S) == ~S.none /\ S.list # <<>>

\* generate_recipe_ai / generate_recipe_from_video up to the end of
\* `if slim_context: ... else: pantry_str = "[]"`. The second request is
\* made when the first one has been answered.
SessionStart(r, S) ==
    /\ pc[r] = "idle"
    /\ r = 2 => pc[1] = "done"
    /\ ctx' = [ctx EXCEPT ![r] = S.list]
    /\ pc' = [pc EXCEPT ![r] = IF Truthy(S) THEN "enter" ELSE "ai_call"]
    /\ UNCHANGED <<pantry_map, pantry_names, idx, earlier, query, answer,
                   lock, lockScope, raw, resolved, food_id>>
    /\ UNCHANGED nonPantryVars

InitSession ==
    /\ PantryStart
    /\ lockScope = "none"
    /\ ExtractIdle
    /\ AssembleIdle
    /\ PersistIdle
    /\ EntryIdle

NextSession ==
    \E r \in Procs :
        \/ \E S \in SessSnapshots : SessionStart(r, S)
        \/ EnterRebuild(r)
        \/ ClearMap(r)
        \/ ClearNames(r, "rebuilt")
        \/ StoreId(r)
        \/ AddName(r, "rebuilt")
        \/ LeaveRebuild(r)
        \/ \E v \in SessRawNames : AIResponse(r, v)
        \/ RequestValidate(r)
        \/ RequestLookup(r)

SpecSession == InitSession /\ [][NextSession]_vars

\* The snapshot of the most recent rebuild when the second request runs
\* (empty: the index as imported).
LastRebuilt == ctx[1]

\* The second request came with no snapshot or an empty one.
SecondBare == pc[2] # "idle" /\ ctx[2] = <<>>

\* C28: a request with no snapshot or an empty one leaves the Pantry Index
\* as the most recent non-empty rebuild left it; its ingredient name is
\* resolved against those names, and get_pantry_id answers from that map.
Thm_C28_BareRequestKeepsIndex ==
    SecondBare =>
        /\ pantry_names = NamesOf(LastRebuilt)
        /\ pantry_map = MapOf(LastRebuilt)
        /\ pc[2] \in {"lookup", "done"} =>
              resolved[2] \in ValidateIngredientNameIn(NamesOf(LastRebuilt), raw[2])
        /\ pc[2] = "done" =>
              /\ food_id[2] = GetPantryIdIn(MapOf(LastRebuilt), resolved[2].name)
              /\ resolved[2].name \in NamesOf(LastRebuilt) => food_id[2] # None

\* After a rebuild from [pork], a request with an empty snapshot has
\* resolved "Pork" to "pork" and found its identifier.
Wit_C28_EmptySnapshotServed ==
    /\ pc[2] = "done"
    /\ ctx[2] = <<>>
    /\ ctx[1] = <<[i |-> "21", n |-> pork]>>
    /\ raw[2] = Pork
    /\ resolved[2] = [name |-> pork, tier |-> "exact"]
    /\ food_id[2] = "21"

---------------------------------------------------------------------------
(* C30: the rows the two routes commit.                                    *)

\* The rows of a recipe saved whole: the recipe, one row per ingredient and
\* one per instruction.
AllRows(recipe) ==
    {RecipeRow}
      \cup {RecipeIngredientRow(k, GetPantryIdIn(pantry_map, recipe.ingredients[k])) :
               k \in 1..Len(recipe.ingredients)}
      \cup {InstructionRow(k) : k \in 1..recipe.instructions}

\* C30 as stated: for a recipe whose ingredients all have an identifier and
\* an Ingredient row, either route ends with the same rows committed: the
\* recipe row, one row per ingredient and one row per instruction, for any
\* number of instructions.
Cex_C30_RoutesCommitSameRows ==
    (pr_pc = "closed" /\ pr_outcome # "error") => pr_committed = AllRows(pr_recipe)

---------------------------------------------------------------------------
(* SpecRecord: RecipeSchema(data) on a payload with its lists: ingredient  *)
(* groups, each a list of ingredients, and instructions.                   *)

MaxGroups == 2
MaxSteps == 2

\* {component, ingredients}: no ingredient, one, and the same one twice
\* around another.
GroupPool ==
    {[component |-> "Sauce", ingredients |-> <<>>],
     [component |-> "Main", ingredients |-> <<[name |-> Pork, amount |-> 2, unit |-> "g"]>>],
     [component |-> "Main",
      ingredients |-> <<[name |-> Pork, amount |-> 2, unit |-> "g"],
                        [name |-> tofu, amount |-> 1, unit |-> "cup"],
                        [name |-> Pork, amount |-> 2, unit |-> "g"]>>]}

\* {phase, step_number, text}: numbered 3 and 1.
StepPool == {[phase |-> prepLower, step_number |-> 3, text |-> "chop"],
             [phase |-> rest, step_number |-> 1, text |-> "let it rest"]}

RecordPayloads ==
    [title             : {"Pork bowl"},
     cuisine           : {italian},
     diet              : {Vegan},
     difficulty        : {hard},
     cleanup_factor    : {CleanupMin, CleanupMax + 1},
     protein_type      : {chicken},
     meal_types        : {<<Breakfast, Nonsense>>},
     ingredient_groups : UNION {[1..k -> GroupPool] : k \in 0..MaxGroups},
     instructions      : UNION {[1..k -> StepPool] : k \in 0..MaxSteps}]

\* IngredientSchema(item): `pick` is what validate_ingredient_name returned
\* for each name.
IngredientSchema(item, pick) ==
    [name |-> pick[item.name].name, amount |-> item.amount, unit |-> item.unit]

\* IngredientGroupSchema(group)
IngredientGroupSchema(group, pick) ==
    [component   |-> group.component,
     ingredients |-> [k \in 1..Len(group.ingredients) |->
                         IngredientSchema(group.ingredients[k], pick)]]

\* InstructionSchema(step)
InstructionSchema(step) ==
    [phase |-> validate_phase(step.phase), step_number |-> step.step_number,
     text |-> step.text]

\* The instructions numbered by their position.
InstructionListRenumbered(steps) ==
    [k \in 1..Len(steps) |-> [InstructionSchema(steps[k]) EXCEPT !.step_number = k]]

\* instructions: List[InstructionSchema]
InstructionList(steps) == [k \in 1..Len(steps) |-> InstructionSchema(steps[k])]

\* The ingredient names of the payload.
PayloadNames(d) ==
    UNION {{d.ingredient_groups[g].ingredients[k].name :
               k \in 1..Len(d.ingredient_groups[g].ingredients)} :
           g \in 1..Len(d.ingredient_groups)}

\* RecipeSchema(data) with the lists.
RecipeSchemaFull(t, d, pick) ==
    IF ~CleanupInRange(d.cleanup_factor) THEN SchemaError
    ELSE Built(
        [title             |-> d.title,
         cuisine           |-> validate_cuisine(t.cuisines, d.cuisine),
         diet              |-> validate_diet(t.diets, d.diet),
         difficulty        |-> validate_difficulty(d.difficulty),
         cleanup_factor    |-> d.cleanup_factor,
         protein_type      |-> validate_protein_type(valid_proteins(t.protein_examples),
                                                     d.protein_type),
         meal_types        |-> validate_meal_types(t.meal_tags, d.meal_types),
         ingredient_groups |-> [g \in 1..Len(d.ingredient_groups) |->
                                   IngredientGroupSchema(d.ingredient_groups[g], pick)],
         instructions      |-> InstructionList(d.instructions)])


\* What the validator can return for each name of the payload.
Picks(d) ==
    LET N == PayloadNames(d)
    IN  {f \in [N -> UNION {validate_ingredient_name(v) : v \in N}] :
            \A v \in N : f[v] \in validate_ingredient_name(v)}

InitRecord ==
    /\ PantryHolding(AssemblePantry)
    /\ lockScope = "none"
    /\ ExtractIdle
    /\ as_tables = TablesFull
    /\ as_policy = "lenient"
    /\ as_payload \in RecordPayloads
    /\ as_pc = "call"
    /\ as_result = None
    /\ as_diag = {}
    /\ as_again = None
    /\ PersistIdle
    /\ EntryIdle

\* RecipeSchema(data) and the lines its validators print.
AssembleRecord ==
    /\ as_pc = "call"
    /\ \E pick \in Picks(as_payload) :
          /\ as_result' = RecipeSchemaFull(as_tables, as_payload, pick)
          /\ as_diag' = Diagnostics(as_tables, as_payload,
                            IF \A v \in DOMAIN pick : pick[v].tier = "exact"
                            THEN "exact" ELSE "other")
    /\ as_pc' = "done"
    /\ UNCHANGED <<as_tables, as_policy, as_payload, as_again>>
    /\ UNCHANGED nonAssembleVars

NextRecord == AssembleRecord

SpecRecord == InitRecord /\ [][NextRecord]_vars

\* C26: the record has the instructions, the ingredient groups and the
\* ingredients of the payload, as many and in the same order, with each
\* title, component, amount, unit, instruction text and step_number as
\* supplied.
Thm_C26_ListsKept ==
    (as_pc = "done" /\ ~as_result.raised) =>
        LET d == as_payload
            rec == as_result.rec
        IN  /\ rec.title = d.title
            /\ Len(rec.instructions) = Len(d.instructions)
            /\ \A k \in 1..Len(d.instructions) :
                  /\ rec.instructions[k].step_number = d.instructions[k].step_number
                  /\ rec.instructions[k].text = d.instructions[k].text
            /\ Len(rec.ingredient_groups) = Len(d.ingredient_groups)
            /\ \A g \in 1..Len(d.ingredient_groups) :
                  /\ rec.ingredient_groups[g].component = d.ingredient_groups[g].component
                  /\ Len(rec.ingredient_groups[g].ingredients)
                        = Len(d.ingredient_groups[g].ingredients)
                  /\ \A k \in 1..Len(d.ingredient_groups[g].ingredients) :
                        /\ rec.ingredient_groups[g].ingredients[k].amount
                              = d.ingredient_groups[g].ingredients[k].amount
                        /\ rec.ingredient_groups[g].ingredients[k].unit
                              = d.ingredient_groups[g].ingredients[k].unit

\* A record was built from steps numbered 3 and 1, in that order, and from
\* twice the same group holding the same ingredient twice.
Wit_C26_GapsAndDuplicatesKept ==
    /\ as_pc = "done" /\ ~as_result.raised
    /\ Len(as_result.rec.instructions) = 2
    /\ as_result.rec.instructions[1].step_number = 3
    /\ as_result.rec.instructions[2].step_number = 1
    /\ Len(as_result.rec.ingredient_groups) = 2
    /\ as_result.rec.ingredient_groups[1] = as_result.rec.ingredient_groups[2]
    /\ Len(as_result.rec.ingredient_groups[1].ingredients) = 3
    /\ as_result.rec.ingredient_groups[1].ingredients[1]
          = as_result.rec.ingredient_groups[1].ingredients[3]

===========================================================================
